---- MODULE Spec2Model ----
(***************************************************************************)
(* ShareDB client Connection (src/src/lib/client/connection.ts).           *)
(*                                                                         *)
(* The connection is a state machine driven by the socket callbacks        *)
(* (onopen, onclose, onmessage), by the public methods (bindToSocket,      *)
(* get, startBulk, endBulk, ...) and by the document layer (sendFetch,     *)
(* sendSubscribe, sendUnsubscribe, sendOp).  Every handler runs to         *)
(* completion on the single JavaScript thread, so each handler is one      *)
(* action.  What a handler emits (events, frames handed to socket.send,    *)
(* calls into documents and queries) is recorded, in order, in the         *)
(* variable log, which holds the trace of the last handler only.           *)
(*                                                                         *)
(* JavaScript objects iterate their (non integer-like) keys in insertion   *)
(* order; objects are therefore modelled as ordered maps: sequences of     *)
(* [k, v] entries with unique keys.  Document ids and collection names     *)
(* are non integer-like strings.                                           *)
(*                                                                         *)
(* The 'error' event is assumed to have a listener (an EventEmitter        *)
(* without one would throw the error instead of emitting it).              *)
(***************************************************************************)
EXTENDS Integers, Sequences, FiniteSets, TLC

\* ------------------------------------------------------------------ bounds
\* Doc objects ever constructed by get()
MaxDocs == 2
\* queries ever created by _createQuery
MaxQueries == 1
\* largest value the document layer lets connection.seq reach
MaxSeq == 2
\* errors thrown out of handleMessage and waiting for their tick
MaxThrows == 1
\* entries recorded in one bulk window
MaxBulk == 2

\* ------------------------------------------------------------- value sets
\* JavaScript undefined and null, as integers below every version
Undefined == -2
Null == -1
\* a document's reaction to _onConnectionStateChanged: no send
Skip == Undefined - 1
\* this.id = null
NoId == "null"
\* an omitted reason argument
NoReason == "undefined"

States == {"connecting", "connected", "disconnected", "closed", "stopped"}
DownStates == {"disconnected", "closed", "stopped"}
Collections == {"books", "notes"}
DocIds == {"d1", "d2"}
BulkActions == {"f", "s", "u"}
\* doc.version: null before the first snapshot, then a number (0 included)
Versions == {Null, 0, 1}
ClientIds == {"C7"}
\* socket.readyState: 0 opening, 1 open, 2 closing, 3 closed
ReadyStates == 0..3
CloseReasons == {"closed", "Closed", "stopped", "Stopped by server", "Request failed", NoReason}
\* options.prefix left out
NoPrefix == ""
Prefixes == {NoPrefix, "app"}
Channels == {"room", "lobby"}

VARIABLES state, canSend, seq, id, agent, collections, queries,
          nextQueryId, bulk, docs, call, log

\* What the application holds: for each (collection, id) it keeps track of,
\* the Doc that get last returned for it since the last _destroyDoc of that
\* pair (0: none).
VARIABLE returned

\* What whenNothingPending depends on: which Doc and Query objects report
\* hasPending(), the whenNothingPending calls made so far with what each is
\* waiting for, and the functions those calls handed to process.nextTick.
VARIABLES pending, waits, timers

pendingVars == <<pending, waits, timers>>

\* The PubSub object (prefix .. subscribed) and what surrounds it: the
\* transport behind _subscribe/_unsubscribe, the process.nextTick queue, the
\* OpStream objects created so far and the subscribe calls made so far.
VARIABLES prefix, nextStreamId, streamsCount, streams, subscribed,
          transport, ticks, opStreams, requests

pubsubVars == <<prefix, nextStreamId, streamsCount, streams, subscribed,
                transport, ticks, opStreams, requests>>

vars == <<state, canSend, seq, id, agent, collections, queries,
          nextQueryId, bulk, docs, call, log, returned, pendingVars, pubsubVars>>

\* ------------------------------------------------- ordered maps (JS objects)
OHas(m, key) == \E i \in 1..Len(m) : m[i].k = key

OIdx(m, key) == CHOOSE i \in 1..Len(m) : m[i].k = key

OGet(m, key) == m[OIdx(m, key)].v

\* obj[key] = val: an existing key keeps its place, a new key goes last
OPut(m, key, val) == IF OHas(m, key) THEN [m EXCEPT ![OIdx(m, key)].v = val] ELSE Append(m, [k |-> key, v |-> val])

\* delete obj[key]
ODel(m, key) == SelectSeq(m, LAMBDA e : e.k # key)

OKeys(m) == [i \in 1..Len(m) |-> m[i].k]

\* --------------------------------------------------------- the connection
\* The Connection object as a record; log is the trace of the running handler.
Cur == [state |-> state, canSend |-> canSend, seq |-> seq, id |-> id,
        agent |-> agent, collections |-> collections,
        queries |-> queries, nextQueryId |-> nextQueryId, bulk |-> bulk,
        log |-> <<>>]

Assign(k) ==
    /\ state' = k.state
    /\ canSend' = k.canSend
    /\ seq' = k.seq
    /\ id' = k.id
    /\ agent' = k.agent
    /\ collections' = k.collections
    /\ queries' = k.queries
    /\ nextQueryId' = k.nextQueryId
    /\ bulk' = k.bulk
    /\ log' = k.log
    /\ UNCHANGED pubsubVars

Commit(k) == Assign(k) /\ UNCHANGED returned /\ UNCHANGED pendingVars

Trace(k, e) == [k EXCEPT !.log = Append(@, e)]

\* Connection.connectionState
connectionState(readyState) == IF readyState = 0 \/ readyState = 1 THEN "connecting" ELSE "disconnected"

\* this.emit(name, ...): name, the state name or "" (a1), the reason (a2), the error code
emit(k, name, a1, a2, code) == Trace(k, [kind |-> "emit", name |-> name, a1 |-> a1, a2 |-> a2, code |-> code, st |-> k.state])

\* Connection.send: the frame as JSON.stringify writes it (an undefined field
\* is left out: v = Undefined stands for no v field)
send(k, frame) == Trace(k, [kind |-> "send", frame |-> frame, st |-> k.state, cs |-> k.canSend])

SingleFrame(a, c, d, v) == [form |-> "single", a |-> a, c |-> c, d |-> d, v |-> v, ids |-> <<>>, vers |-> <<>>, n |-> 0]

ListFrame(a, c, ids) == [form |-> "list", a |-> a, c |-> c, d |-> "", v |-> Undefined, ids |-> ids, vers |-> <<>>, n |-> 0]

MapFrame(a, c, vers) == [form |-> "map", a |-> a, c |-> c, d |-> "", v |-> Undefined, ids |-> <<>>, vers |-> vers, n |-> 0]

OpFrame(c, d, v, n) == [form |-> "op", a |-> "op", c |-> c, d |-> d, v |-> v, ids |-> <<>>, vers |-> <<>>, n |-> n]

QueryFrame(a, n) == [form |-> "query", a |-> a, c |-> "", d |-> "", v |-> Undefined, ids |-> <<>>, vers |-> <<>>, n |-> n]

\* the trace entry of _reset keeps what it overwrites
ResetEntry(k) == [kind |-> "reset", seqWas |-> k.seq, idWas |-> k.id, agentWas |-> k.agent, st |-> k.state]

resetKeepsId(k) == Trace([k EXCEPT !.seq = 1, !.agent = FALSE], ResetEntry(k))

\* Connection._reset
reset(k) == Trace([k EXCEPT !.seq = 1, !.id = NoId, !.agent = FALSE], ResetEntry(k))

\* the bulk accumulator: open = FALSE is this.bulk null/undefined; m maps
\* collection -> [f, s, u], each an ordered map docId -> version
NoBulk == [open |-> FALSE, m |-> <<>>]

NoActions == [f |-> <<>>, s |-> <<>>, u |-> <<>>]

\* Connection.startBulk
startBulk(k) == Trace(IF ~k.bulk.open THEN [k EXCEPT !.bulk = [open |-> TRUE, m |-> <<>>]] ELSE k, [kind |-> "startBulk", st |-> k.state])

\* Connection._sendBulk: the loop partitions values into ids (value == null)
\* and versions, then sends each group in single or bulk form
sendBulkIds(values) == OKeys(SelectSeq(values, LAMBDA e : e.v = Null \/ e.v = Undefined))

\* the partition made with !value instead of value == null
sendBulkVersionsTruthy(values) == SelectSeq(values, LAMBDA e : ~(e.v = Null \/ e.v = Undefined \/ e.v = 0))

sendBulkVersions(values) == SelectSeq(values, LAMBDA e : ~(e.v = Null \/ e.v = Undefined))

\* one frame per recorded id, nothing coalesced
sendBulkOneByOne(k, action, collection, values) ==
    LET f[i \in 0..Len(values)] == IF i = 0 THEN k ELSE send(f[i - 1], SingleFrame(action, collection, values[i].k, IF values[i].v = Null THEN Undefined ELSE values[i].v))
    IN  f[Len(values)]

sendBulk(k, action, collection, values) ==
    LET ids == sendBulkIds(values)
        versions == sendBulkVersions(values)
        k1 == IF Len(ids) = 1 THEN send(k, SingleFrame(action, collection, ids[1], Undefined))
              ELSE IF Len(ids) # 0 THEN send(k, ListFrame("b" \o action, collection, ids))
              ELSE k
    IN  IF Len(versions) = 1 THEN send(k1, SingleFrame(action, collection, versions[1].k, versions[1].v))
        ELSE IF Len(versions) # 0 THEN send(k1, MapFrame("b" \o action, collection, versions))
        ELSE k1

RECURSIVE endBulkLoop(_, _, _)
endBulkLoop(k, m, i) ==
    IF i > Len(m) THEN k
    ELSE LET c == m[i].k
             actions == m[i].v
             k1 == sendBulk(k, "f", c, actions.f)
             k2 == sendBulk(k1, "s", c, actions.s)
             k3 == sendBulk(k2, "u", c, actions.u)
         IN  endBulkLoop(k3, m, i + 1)

\* Connection.endBulk; the trace entry keeps the accumulator that is flushed
endBulk(k) ==
    LET k0 == Trace(k, [kind |-> "endBulk", acc |-> k.bulk, st |-> k.state])
        k1 == IF k.bulk.open THEN endBulkLoop(k0, k.bulk.m, 1) ELSE k0
    IN  [k1 EXCEPT !.bulk = NoBulk]

BulkSize(b) == LET n[i \in 0..Len(b.m)] == IF i = 0 THEN 0 ELSE n[i - 1] + Len(b.m[i].v.f) + Len(b.m[i].v.s) + Len(b.m[i].v.u) IN n[Len(b.m)]

\* ---------------------------------------------------------- the registries
\* A Doc object is its identity, an index into docs; docs[i] holds the
\* collection and id the object was constructed with.  0 is undefined.
DocOf(i) == [ident |-> i, c |-> docs[i].c, d |-> docs[i].d]

\* Connection.getExisting
getExisting(k, c, d) == IF OHas(k.collections, c) /\ OHas(OGet(k.collections, c), d) THEN OGet(OGet(k.collections, c), d) ELSE 0

\* Connection._addDoc
addDoc(k, doc) ==
    LET k1 == IF ~OHas(k.collections, doc.c) THEN [k EXCEPT !.collections = OPut(@, doc.c, <<>>)] ELSE k
        inner == OGet(k1.collections, doc.c)
    IN  IF ~OHas(inner, doc.d) \/ OGet(inner, doc.d) # doc.ident
        THEN [k1 EXCEPT !.collections = OPut(@, doc.c, OPut(inner, doc.d, doc.ident))]
        ELSE k1

\* Connection.get; fresh is the identity a newly constructed Doc gets
get(k, c, d, fresh) ==
    LET k1 == IF ~OHas(k.collections, c) THEN [k EXCEPT !.collections = OPut(@, c, <<>>)] ELSE k
        inner == OGet(k1.collections, c)
    IN  IF ~OHas(inner, d)
        THEN Trace([k1 EXCEPT !.collections = OPut(@, c, OPut(inner, d, fresh))], [kind |-> "emit", name |-> "doc", a1 |-> "", a2 |-> "", code |-> fresh, st |-> k.state])
        ELSE k1

\* Connection._destroyDoc
destroyDoc(k, doc) ==
    IF ~OHas(k.collections, doc.c) THEN k
    ELSE LET inner == ODel(OGet(k.collections, doc.c), doc.d)
         IN  IF Len(inner) = 0 THEN [k EXCEPT !.collections = ODel(@, doc.c)]
             ELSE [k EXCEPT !.collections = OPut(@, doc.c, inner)]

\* the registered Doc objects, in the order the loops of _setState and
\* _firstDoc visit them
DocList(cols) == LET f[i \in 0..Len(cols)] == IF i = 0 THEN <<>> ELSE f[i - 1] \o [j \in 1..Len(cols[i].v) |-> cols[i].v[j].v] IN f[Len(cols)]

\* Query.send, as _createQuery and Query._onConnectionStateChanged use it:
\* the query's frame goes out only while canSend
querySend(k, action, qid) == IF k.canSend THEN send(k, QueryFrame(action, qid)) ELSE k

\* Connection._createQuery
createQuery(k, action) ==
    LET qid == k.nextQueryId
        k1 == [k EXCEPT !.nextQueryId = qid + 1, !.queries = Append(@, qid)]
    IN  querySend(k1, action, qid)

\* Connection._destroyQuery
destroyQuery(k, qid) == [k EXCEPT !.queries = SelectSeq(@, LAMBDA q : q # qid)]

\* ------------------------------------------------------ outbound, per doc
\* Connection._sendAction
sendAction(k, action, doc, version) ==
    LET k1 == addDoc(k, doc)
    IN  IF k1.bulk.open
        THEN LET m0 == k1.bulk.m
                 actions == IF OHas(m0, doc.c) THEN OGet(m0, doc.c) ELSE NoActions
                 versions == actions[action]
                 isDuplicate == OHas(versions, doc.d)
                 m1 == OPut(m0, doc.c, [actions EXCEPT ![action] = OPut(versions, doc.d, version)])
             IN  Trace([k1 EXCEPT !.bulk.m = m1], [kind |-> "record", a |-> action, c |-> doc.c, d |-> doc.d, v |-> version, ret |-> isDuplicate, st |-> k.state])
        ELSE send(k1, SingleFrame(action, doc.c, doc.d, version))

\* Connection.sendFetch / sendSubscribe / sendUnsubscribe
sendFetch(k, doc, version) == sendAction(k, "f", doc, version)

sendSubscribe(k, doc, version) == sendAction(k, "s", doc, version)

sendUnsubscribe(k, doc) == sendAction(k, "u", doc, Undefined)

\* Connection.sendOp; n is op.seq
sendOp(k, doc, version, n) == send(addDoc(k, doc), OpFrame(doc.c, doc.d, version, n))

\* --------------------------------------------------------- state machine
\* What the document layer does when notified: react[i] is Skip, or the
\* doc.version with which Doc i re-subscribes.  The document layer sends only
\* while canSend.
docOnConnectionStateChanged(k, doc, r) ==
    LET k1 == Trace(k, [kind |-> "notifyDoc", doc |-> doc.ident, st |-> k.state, cs |-> k.canSend, open |-> k.bulk.open])
    IN  IF k1.canSend /\ r # Skip THEN sendSubscribe(k1, doc, r) ELSE k1

queryOnConnectionStateChanged(k, qid) == Trace(k, [kind |-> "notifyQuery", q |-> qid, st |-> k.state, cs |-> k.canSend, open |-> k.bulk.open])

RECURSIVE notifyQueries(_, _, _)
notifyQueries(k, qs, i) == IF i > Len(qs) THEN k ELSE notifyQueries(queryOnConnectionStateChanged(k, qs[i]), qs, i + 1)

RECURSIVE notifyDocs(_, _, _, _)
notifyDocs(k, ds, i, react) == IF i > Len(ds) THEN k ELSE notifyDocs(docOnConnectionStateChanged(k, DocOf(ds[i]), react[ds[i]]), ds, i + 1, react)

illegalTransitionToConnectingOnly(from, to) == to = "connecting" /\ from # "disconnected" /\ from # "stopped" /\ from # "closed"

\* the guard of _setState that rejects a transition
illegalTransition(from, to) ==
    \/ (to = "connecting" /\ from # "disconnected" /\ from # "stopped" /\ from # "closed")
    \/ (to = "connected" /\ from # "connecting")

\* this.state = newState; this.canSend = (newState === 'connected')
updateState(k, newState) ==
    Trace([k EXCEPT !.state = newState, !.canSend = (newState = "connected")],
          [kind |-> "update", from |-> k.state, to |-> newState, st |-> newState, cs |-> (newState = "connected")])

applyTransitionEventsFirst(k, newState, reason, react) ==
    LET k1 == updateState(k, newState)
        k2 == IF newState \in DownStates THEN reset(k1) ELSE k1
        k3 == emit(k2, newState, "", reason, 0)
        k4 == emit(k3, "state", newState, reason, 0)
        k5 == startBulk(k4)
        k6 == notifyQueries(k5, k5.queries, 1)
        k7 == notifyDocs(k6, DocList(k6.collections), 1, react)
    IN  endBulk(k7)

\* Connection._setState, once the transition is accepted
applyTransition(k, newState, reason, react) ==
    LET k1 == updateState(k, newState)
        k2 == IF newState \in DownStates THEN reset(k1) ELSE k1
        k3 == startBulk(k2)
        k4 == notifyQueries(k3, k3.queries, 1)
        k5 == notifyDocs(k4, DocList(k4.collections), 1, react)
        k6 == endBulk(k5)
        k7 == emit(k6, newState, "", reason, 0)
    IN  emit(k7, "state", newState, reason, 0)

setStateAssignsFirst(k, newState, reason, react) ==
    IF k.state = newState THEN k
    ELSE IF illegalTransition(k.state, newState) THEN emit([k EXCEPT !.state = newState], "error", "", "", 5007)
    ELSE applyTransition(k, newState, reason, react)

\* Connection._setState
setState(k, newState, reason, react) ==
    IF k.state = newState THEN k
    ELSE IF illegalTransition(k.state, newState) THEN emit(k, "error", "", "", 5007)
    ELSE applyTransition(k, newState, reason, react)

\* no document sends anything from its notification
NoReact == [i \in 1..Len(docs) |-> Skip]

Reactions == [1..Len(docs) -> {Skip} \cup Versions]

\* the reactions to draw for a _setState(newState) request: a request that
\* does not lead to 'connected' notifies no document that can send
ReactionsTo(newState) == IF newState = "connected" /\ state = "connecting" THEN Reactions ELSE {NoReact}

\* onclose matching the lower-case reasons only
oncloseLowerCaseOnly(k, reason) ==
    IF reason = "closed" THEN setState(k, "closed", reason, NoReact)
    ELSE IF reason = "stopped" THEN setState(k, "stopped", reason, NoReact)
    ELSE setState(k, "disconnected", reason, NoReact)

\* socket.onclose
onclose(k, reason) ==
    IF reason = "closed" \/ reason = "Closed" THEN setState(k, "closed", reason, NoReact)
    ELSE IF reason = "stopped" \/ reason = "Stopped by server" THEN setState(k, "stopped", reason, NoReact)
    ELSE setState(k, "disconnected", reason, NoReact)

\* socket.onopen
onopen(k) == setState(k, "connecting", NoReason, NoReact)

\* socket.close() of the bound socket: sync is "async" when the socket reports
\* the close on a later turn (a WebSocket), else the reason with which it
\* calls onclose before close() returns (a stream socket)
SyncCloses == {"async", "closed"}

socketClose(k, sync) ==
    LET k1 == Trace(k, [kind |-> "socketClose", st |-> k.state])
    IN  IF sync = "async" THEN k1 ELSE onclose(k1, sync)

\* Connection.bindToSocket, on a connection that has a socket; readyState is
\* that of the new socket
bindToSocket(k, readyState, sync) ==
    LET k1 == socketClose(k, sync)
        k2 == setState(k1, connectionState(readyState), NoReason, NoReact)
    IN  [k2 EXCEPT !.canSend = FALSE]

\* Connection.close
close(k, sync) == socketClose(k, sync)

\* ------------------------------------------------------- inbound dispatch
\* types.map[message.type] === types.defaultType: json0 is registered under
\* its name and its uri
DefaultTypeNames == {"json0", "http://sharejs.org/types/JSONv0"}

isDefaultType(type) == type \in DefaultTypeNames

\* An inbound message.  error is the code of its error envelope (0: none);
\* idIsString is typeof message.id === 'string'; form says which of data / b
\* a bulk reply carries and keys lists the docIds in it.
Msg(a, protocol, type, idIsString, mid, c, error, form, keys) ==
    [a |-> a, protocol |-> protocol, type |-> type, idIsString |-> idIsString, id |-> mid,
     c |-> c, error |-> error, form |-> form, keys |-> keys]

\* doc[method](err, data): err is an error code, 0 for undefined or null
docCall(k, doc, method, err, data) == Trace(k, [kind |-> "call", doc |-> doc, method |-> method, err |-> err, data |-> data, st |-> k.state])

RECURSIVE handleBulkLoop(_, _, _, _, _)
handleBulkLoop(k, message, method, withData, i) ==
    IF i > Len(message.keys) THEN k
    ELSE LET d == message.keys[i]
             doc == getExisting(k, message.c, d)
             k1 == IF doc # 0 THEN docCall(k, doc, method, message.error, IF withData THEN d ELSE "") ELSE k
         IN  handleBulkLoop(k1, message, method, withData, i + 1)

\* Connection._handleBulkMessage
handleBulkMessage(k, message, method) ==
    IF message.form = "data" THEN handleBulkLoop(k, message, method, TRUE, 1)
    ELSE IF message.form = "array" THEN handleBulkLoop(k, message, method, FALSE, 1)
    ELSE IF message.form = "map" THEN handleBulkLoop(k, message, method, FALSE, 1)
    ELSE k

handleInitIdBeforeType(k, message, react) ==
    IF message.protocol # 1 THEN emit(k, "error", "", "", 4019)
    ELSE IF ~message.idIsString THEN emit(k, "error", "", "", 4021)
    ELSE IF ~isDefaultType(message.type) THEN emit(k, "error", "", "", 4020)
    ELSE setState([k EXCEPT !.id = message.id], "connected", NoReason, react)

\* Connection.handleMessage, case 'init'
handleInit(k, message, react) ==
    IF message.protocol # 1 THEN emit(k, "error", "", "", 4019)
    ELSE IF ~isDefaultType(message.type) THEN emit(k, "error", "", "", 4020)
    ELSE IF ~message.idIsString THEN emit(k, "error", "", "", 4021)
    ELSE setState([k EXCEPT !.id = message.id], "connected", NoReason, react)

\* query[method](...): err is an error code, 0 for null
queryCall(k, q, method, err, arg) == Trace(k, [kind |-> "qcall", q |-> q, method |-> method, err |-> err, arg |-> arg, st |-> k.state])

\* this.queries[message.id]: 0 is undefined
queryOf(k, qid) == IF \E i \in 1..Len(k.queries) : k.queries[i] = qid THEN qid ELSE 0

\* case 'q' going on to diff and extra after an error
handleQueryNoReturn(k, message, err) ==
    LET query == queryOf(k, message.qid)
    IN  IF query = 0 THEN k
        ELSE LET k1 == IF err # 0 THEN queryCall(k, query, "_handleError", err, "") ELSE k
                 k2 == IF message.diff THEN queryCall(k1, query, "_handleDiff", 0, "diff") ELSE k1
             IN  IF message.extra THEN queryCall(k2, query, "_handleExtra", 0, "extra") ELSE k2

\* Connection.handleMessage, case 'q'
handleQuery(k, message, err) ==
    LET query == queryOf(k, message.qid)
    IN  IF query = 0 THEN k
        ELSE IF err # 0 THEN queryCall(k, query, "_handleError", err, "")
        ELSE LET k1 == IF message.diff THEN queryCall(k, query, "_handleDiff", 0, "diff") ELSE k
             IN  IF message.extra THEN queryCall(k1, query, "_handleExtra", 0, "extra") ELSE k1

\* Connection.handleMessage, cases 'qf' and 'qs'
handleQueryReply(k, message, method, err) ==
    IF queryOf(k, message.qid) # 0 THEN queryCall(k, queryOf(k, message.qid), method, err, "data") ELSE k

\* Connection.handleMessage, cases 'f', 's', 'u' and 'op'
handleDocReply(k, message, method, err, data) ==
    IF getExisting(k, message.c, message.d) # 0 THEN docCall(k, getExisting(k, message.c, message.d), method, err, data) ELSE k

\* Connection.handleMessage
handleMessage(k, msg, react) ==
    LET err == IF msg.error # 0 THEN msg.error ELSE 0
        \* delete message.error
        message == IF msg.error # 0 THEN [msg EXCEPT !.error = 0] ELSE msg
    IN  CASE message.a = "init" -> handleInit(k, message, react)
          [] message.a = "qf" -> handleQueryReply(k, message, "_handleFetch", err)
          [] message.a = "qs" -> handleQueryReply(k, message, "_handleSubscribe", err)
          [] message.a = "qu" -> k
          [] message.a = "q" -> handleQuery(k, message, err)
          [] message.a = "bf" -> handleBulkMessage(k, message, "_handleFetch")
          [] message.a = "bs" -> handleBulkMessage(k, message, "_handleSubscribe")
          [] message.a = "bu" -> handleBulkMessage(k, message, "_handleUnsubscribe")
          [] message.a = "f" -> handleDocReply(k, message, "_handleFetch", err, "data")
          [] message.a = "s" -> handleDocReply(k, message, "_handleSubscribe", err, "data")
          [] message.a = "u" -> handleDocReply(k, message, "_handleUnsubscribe", err, "")
          [] message.a = "op" -> handleDocReply(k, message, "_handleOp", err, "message")
          \* console.warn('Ignoring unrecognized message', message)
          [] OTHER -> k

\* What the application's code does while socket.onmessage runs: nothing
\* (Quiet); a listener of 'receive' sets request.data = null ("drop"); the
\* first Doc or Query handler that handleMessage calls throws ("throw").
Quiet == "quiet"

Receivings == {Quiet, "drop", "throw"}

\* the error a Doc or Query handler throws
Thrown == 1

IsHandlerCall(e) == e.kind \in {"call", "qcall"}

\* the catch of socket.onmessage: the trace of handleMessage ends with the
\* handler call that threw, and emit('error', err) is handed to
\* process.nextTick.  k1 is the connection when handleMessage was called: a
\* message that reaches a handler changes no field of the connection.
caught(k1, l) ==
    LET first == CHOOSE i \in 1..Len(l) : IsHandlerCall(l[i]) /\ \A j \in 1..(i - 1) : ~IsHandlerCall(l[j])
    IN  [k1 EXCEPT !.log = Append(SubSeq(l, 1, first), [kind |-> "nextTick", fn |-> "error", code |-> Thrown])]

\* the try of socket.onmessage: k2 is the connection handleMessage leaves when
\* no handler throws
tryHandle(k1, k2, hear) ==
    IF hear = "throw" /\ \E i \in (Len(k1.log) + 1)..Len(k2.log) : IsHandlerCall(k2.log[i]) THEN caught(k1, k2.log)
    ELSE k2

\* socket.onmessage with an already decoded event.data
onmessage(k, msg, react, hear) ==
    IF hear = "drop" THEN emit(k, "receive", "", "", 0)
    ELSE tryHandle(emit(k, "receive", "", "", 0), handleMessage(emit(k, "receive", "", "", 0), msg, react), hear)

\* ------------------------------------------------------------ the inputs
InitTypes == {"json0", "http://sharejs.org/types/JSONv0", "text0"}

\* {a: "init", protocol, type, id}; a non-string id is modelled as NoId
InitMessages == {Msg("init", p, t, s, IF s THEN i ELSE NoId, "", 0, "none", <<>>) : p \in {1, 2}, t \in InitTypes, s \in BOOLEAN, i \in ClientIds}

\* the init messages that pass the three checks
GoodInits == {m \in InitMessages : m.protocol = 1 /\ isDefaultType(m.type) /\ m.idIsString}

GoodInit == {m \in GoodInits : m.type = "json0"}

KeyLists == {<<>>, <<"d1">>, <<"d2", "d1">>}

\* the code of the error envelope a reply may carry, 0 for no envelope
ReplyErrors == {0, 4001}

\* {a: "bf"|"bs"|"bu", c, data? | b?, error?}
BulkMessages == {Msg(a, 0, "", FALSE, NoId, c, e, f, IF f = "none" THEN <<>> ELSE ks) : a \in {"bf", "bs", "bu"}, c \in Collections, e \in ReplyErrors, f \in {"data", "array", "map", "none"}, ks \in KeyLists}

\* a reply about one document or one query: d and qid name it, diff and
\* extra say whether a 'q' message carries those fields
RouteMsg(a, c, d, qid, error, diff, extra) ==
    [a |-> a, protocol |-> 0, type |-> "", idIsString |-> FALSE, id |-> NoId, c |-> c, error |-> error,
     form |-> "none", keys |-> <<>>, d |-> d, qid |-> qid, diff |-> diff, extra |-> extra]

\* {a: "f"|"s"|"u"|"op", c, d, error?}
DocMessages == {RouteMsg(a, c, d, 0, e, FALSE, FALSE) : a \in {"f", "s", "u", "op"}, c \in Collections, d \in DocIds, e \in ReplyErrors}

\* {a: "qf"|"qs"|"qu"|"q", id, error?, diff?, extra?} and an action the
\* dispatcher does not know; id may name no registered query
QueryMessages ==
    {RouteMsg(a, "", "", q, e, FALSE, FALSE) : a \in {"qf", "qs", "qu", "ping"}, q \in 1..(MaxQueries + 1), e \in ReplyErrors}
    \cup {RouteMsg("q", "", "", q, e, diff, extra) : q \in 1..(MaxQueries + 1), e \in ReplyErrors, diff \in BOOLEAN, extra \in BOOLEAN}

\* ------------------------------------------------------------ the actions
\* Handlers run to completion, one per turn of the event loop: a handler
\* starts only when the previous one has returned.
Idle == call.op = "idle"

\* the running handler returns to the event loop; its trace is dropped
Return ==
    /\ ~Idle
    /\ call' = [op |-> "idle"]
    /\ log' = <<>>
    /\ UNCHANGED <<state, canSend, seq, id, agent, collections, queries, nextQueryId, bulk, docs>>
    /\ UNCHANGED returned
    /\ UNCHANGED pendingVars
    /\ UNCHANGED pubsubVars

\* new PubSub(options): the field initialisers and the constructor
ConstructPubSub(p) ==
    /\ prefix = p
    /\ nextStreamId = 1
    /\ streamsCount = 0
    /\ streams = <<>>
    /\ subscribed = {}
    /\ transport = [queue |-> <<>>, channels |-> {}]
    /\ ticks = <<>>
    /\ opStreams = <<>>
    /\ requests = <<>>

\* new Connection(socket): the state after construction
ConstructConnection(rs) ==
    /\ state = connectionState(rs)
    /\ call = [op |-> "constructor", readyState |-> rs]
    /\ canSend = FALSE
    /\ seq = 1
    /\ id = NoId
    /\ agent = FALSE
    /\ collections = <<>>
    /\ queries = <<>>
    /\ nextQueryId = 1
    /\ bulk = NoBulk
    /\ docs = <<>>
    /\ log = <<>>
    /\ pending = [docs |-> {}, queries |-> {}, once |-> <<>>]
    /\ waits = <<>>
    /\ timers = <<>>

\* an application that keeps track of no Doc, and one that tracks them all
NoneTracked == [key \in {} |-> 0]
AllTracked == [key \in Collections \X DocIds |-> 0]

Init == ConstructPubSub(NoPrefix) /\ returned = NoneTracked /\ \E rs \in ReadyStates : ConstructConnection(rs)

BindToSocket(rs, sync) ==
    /\ Idle
    /\ call' = [op |-> "bindToSocket", readyState |-> rs, sync |-> sync]
    /\ Commit(bindToSocket(Cur, rs, sync))
    /\ UNCHANGED docs

OnOpen ==
    /\ Idle
    /\ call' = [op |-> "onopen"]
    /\ Commit(onopen(Cur))
    /\ UNCHANGED docs

OnClose(reason) ==
    /\ Idle
    /\ call' = [op |-> "onclose", reason |-> reason]
    /\ Commit(onclose(Cur, reason))
    /\ UNCHANGED docs

\* the functions a handler handed to process.nextTick, as they are queued
Deferred(l) == [i \in 1..Len(SelectSeq(l, LAMBDA e : e.kind = "nextTick")) |-> [fn |-> "error", w |-> 0]]

OnMessage(msg, react, hear) ==
    /\ Idle
    /\ hear = "throw" => Len(timers) < MaxThrows
    /\ call' = [op |-> "onmessage", msg |-> msg, react |-> react, hear |-> hear]
    /\ Assign(onmessage(Cur, msg, react, hear))
    /\ timers' = timers \o Deferred(log')
    /\ UNCHANGED <<returned, pending, waits>>
    /\ UNCHANGED docs

\* a direct call of _setState
SetState(newState, reason, react) ==
    /\ Idle
    /\ call' = [op |-> "_setState", newState |-> newState, reason |-> reason, react |-> react]
    /\ Commit(setState(Cur, newState, reason, react))
    /\ UNCHANGED docs

Close(sync) ==
    /\ Idle
    /\ call' = [op |-> "close", sync |-> sync]
    /\ Commit(close(Cur, sync))
    /\ UNCHANGED docs

\* connection.get(c, d); a Doc is constructed when none is registered
Get(c, d) ==
    /\ getExisting(Cur, c, d) # 0 \/ Len(docs) < MaxDocs
    /\ Idle
    /\ call' = [op |-> "get", c |-> c, d |-> d, ret |-> IF getExisting(Cur, c, d) # 0 THEN getExisting(Cur, c, d) ELSE Len(docs) + 1]
    /\ Assign(get(Cur, c, d, Len(docs) + 1))
    /\ docs' = IF getExisting(Cur, c, d) # 0 THEN docs ELSE Append(docs, [c |-> c, d |-> d])
    /\ returned' = [key \in DOMAIN returned |-> IF key = <<c, d>> THEN call'.ret ELSE returned[key]]
    /\ UNCHANGED pendingVars

DestroyDoc(i) ==
    /\ Idle
    /\ call' = [op |-> "_destroyDoc", doc |-> i]
    /\ Assign(destroyDoc(Cur, DocOf(i)))
    /\ UNCHANGED docs
    /\ returned' = [key \in DOMAIN returned |-> IF key = <<docs[i].c, docs[i].d>> THEN 0 ELSE returned[key]]
    /\ UNCHANGED pendingVars

CreateQuery(action) ==
    /\ nextQueryId <= MaxQueries
    /\ Idle
    /\ call' = [op |-> "_createQuery", action |-> action]
    /\ Assign(createQuery(Cur, action))
    /\ pending' = [pending EXCEPT !.queries = @ \cup {nextQueryId}]
    /\ UNCHANGED <<docs, returned, waits, timers>>

DestroyQuery(qid) ==
    /\ Idle
    /\ call' = [op |-> "_destroyQuery", q |-> qid]
    /\ Commit(destroyQuery(Cur, qid))
    /\ UNCHANGED docs

\* server-side user code caches the agent on the connection
AttachAgent ==
    /\ agent = FALSE
    /\ Idle
    /\ call' = [op |-> "agent"]
    /\ Commit([Cur EXCEPT !.agent = TRUE])
    /\ UNCHANGED docs

\* the document layer takes the number of its next op: connection.seq++
NextSeq ==
    /\ seq < MaxSeq
    /\ Idle
    /\ call' = [op |-> "seq++", was |-> seq]
    /\ Commit([Cur EXCEPT !.seq = seq + 1])
    /\ UNCHANGED docs

\* connection.sendOp(doc, op); v is doc.version and n is op.seq
SendOp(i, v, n) ==
    /\ Idle
    /\ call' = [op |-> "sendOp", doc |-> i, v |-> v, seq |-> n]
    /\ Commit(sendOp(Cur, DocOf(i), v, n))
    /\ UNCHANGED docs

\* the function socket.onmessage handed to process.nextTick runs
ErrorTick ==
    /\ Idle
    /\ timers # <<>>
    /\ Head(timers).fn = "error"
    /\ call' = [op |-> "errorTick"]
    /\ Assign(emit(Cur, "error", "", "", Thrown))
    /\ timers' = Tail(timers)
    /\ UNCHANGED <<docs, returned, pending, waits>>

StartBulk ==
    /\ Idle
    /\ call' = [op |-> "startBulk"]
    /\ Commit(startBulk(Cur))
    /\ UNCHANGED docs

EndBulk ==
    /\ Idle
    /\ call' = [op |-> "endBulk"]
    /\ Commit(endBulk(Cur))
    /\ UNCHANGED docs

\* connection.sendFetch(doc) / sendSubscribe(doc) / sendUnsubscribe(doc); v is
\* doc.version at the call
SendFetch(i, v) ==
    /\ BulkSize(bulk) < MaxBulk
    /\ Idle
    /\ call' = [op |-> "sendFetch", a |-> "f", doc |-> i, v |-> v]
    /\ Commit(sendFetch(Cur, DocOf(i), v))
    /\ UNCHANGED docs

SendSubscribe(i, v) ==
    /\ BulkSize(bulk) < MaxBulk
    /\ Idle
    /\ call' = [op |-> "sendSubscribe", a |-> "s", doc |-> i, v |-> v]
    /\ Commit(sendSubscribe(Cur, DocOf(i), v))
    /\ UNCHANGED docs

SendUnsubscribe(i) ==
    /\ BulkSize(bulk) < MaxBulk
    /\ Idle
    /\ call' = [op |-> "sendUnsubscribe", a |-> "u", doc |-> i, v |-> Undefined]
    /\ Commit(sendUnsubscribe(Cur, DocOf(i)))
    /\ UNCHANGED docs

DocIdents == 1..Len(docs)

\* the document layer sends, and numbers its ops, only while canSend
DocLayerSends == canSend

\* the documents the application opens in the life cycle specification
LifeCycleKeys == {<<"books", "d1">>, <<"books", "d2">>}

\* The connection life cycle: socket callbacks, rebinds, init messages,
\* _setState, the registries.
Next ==
    \/ Return
    \/ \E rs \in ReadyStates, sync \in SyncCloses : BindToSocket(rs, sync)
    \/ OnOpen
    \/ \E reason \in CloseReasons : OnClose(reason)
    \/ \E msg \in InitMessages : \E react \in ReactionsTo(IF msg \in GoodInits THEN "connected" ELSE ""), hear \in {Quiet, "drop"} : OnMessage(msg, react, hear)
    \/ \E newState \in States : \E react \in ReactionsTo(newState) : SetState(newState, NoReason, react)
    \/ \E sync \in SyncCloses : Close(sync)
    \/ \E key \in LifeCycleKeys : Get(key[1], key[2])
    \/ \E i \in DocIdents : DestroyDoc(i)
    \/ \E action \in {"qf", "qs"} : CreateQuery(action)
    \/ \E i \in 1..Len(queries) : DestroyQuery(queries[i])
    \/ AttachAgent
    \/ DocLayerSends /\ NextSeq
    \/ DocLayerSends /\ \E i \in DocIdents, v \in Versions, n \in 1..seq : SendOp(i, v, n)

Spec == Init /\ [][Next]_vars

\* The document traffic of a connection: bulk windows and per-doc sends.
NextBulk ==
    \/ Return
    \/ OnOpen
    \/ \E msg \in GoodInit : OnMessage(msg, NoReact, Quiet)
    \/ \E reason \in {"closed", "Request failed"} : OnClose(reason)
    \/ \E c \in Collections, d \in DocIds : Get(c, d)
    \/ StartBulk
    \/ EndBulk
    \/ DocLayerSends /\ \E i \in DocIdents, v \in Versions : SendFetch(i, v)
    \/ DocLayerSends /\ \E i \in DocIdents, v \in Versions : SendSubscribe(i, v)
    \/ DocLayerSends /\ \E i \in DocIdents : SendUnsubscribe(i)

SpecBulk == Init /\ [][NextBulk]_vars

\* Inbound bulk replies dispatched to the registered documents.
NextDispatch ==
    \/ Return
    \/ OnOpen
    \/ \E msg \in GoodInit : OnMessage(msg, NoReact, Quiet)
    \/ \E reason \in {"Request failed"} : OnClose(reason)
    \/ \E c \in Collections, d \in DocIds : Get(c, d)
    \/ \E i \in DocIdents : DestroyDoc(i)
    \/ \E msg \in BulkMessages : \E hear \in (IF msg.c = "books" /\ msg.keys = <<"d2", "d1">> /\ msg.error = 0 THEN Receivings ELSE {Quiet}) : OnMessage(msg, NoReact, hear)
    \/ ErrorTick

SpecDispatch == Init /\ [][NextDispatch]_vars

\* Inbound replies about one document or one query, routed to the registered
\* objects while documents and queries come and go.
NextRoute ==
    \/ Return
    \/ \E msg \in GoodInit : OnMessage(msg, NoReact, Quiet)
    \/ \E c \in Collections, d \in DocIds : Get(c, d)
    \/ \E i \in DocIdents : DestroyDoc(i)
    \/ \E action \in {"qs"} : CreateQuery(action)
    \/ \E i \in 1..Len(queries) : DestroyQuery(queries[i])
    \/ \E msg \in DocMessages \cup QueryMessages : \E hear \in (IF msg \in {RouteMsg("f", "books", "d1", 0, 0, FALSE, FALSE), RouteMsg("q", "", "", 1, 0, TRUE, TRUE)} THEN Receivings ELSE {Quiet}) : OnMessage(msg, NoReact, hear)
    \/ ErrorTick

SpecRoute == Init /\ [][NextRoute]_vars

InitRegistry == ConstructPubSub(NoPrefix) /\ returned = AllTracked /\ \E rs \in {1, 3} : ConstructConnection(rs)

\* The Doc registry: the application gets, destroys and uses Doc objects,
\* destroyed ones included, while the connection comes and goes.
NextRegistry ==
    \/ Return
    \/ \E msg \in GoodInit : OnMessage(msg, NoReact, Quiet)
    \/ \E reason \in {"Request failed"} : OnClose(reason)
    \/ \E rs \in {1} : BindToSocket(rs, "async")
    \/ \E key \in LifeCycleKeys : Get(key[1], key[2])
    \/ \E i \in DocIdents : DestroyDoc(i)
    \/ DocLayerSends /\ \E i \in DocIdents, v \in {0} : SendOp(i, v, seq)
    \/ DocLayerSends /\ \E i \in DocIdents, v \in {Null} : SendFetch(i, v)
    \/ DocLayerSends /\ \E i \in DocIdents, v \in {0} : SendSubscribe(i, v)
    \/ DocLayerSends /\ \E i \in DocIdents : SendUnsubscribe(i)
    \/ \E msg \in {m \in DocMessages : m.c = "books" /\ m.error = 0 /\ m.a \in {"f", "op"}} : OnMessage(msg, NoReact, Quiet)

SpecRegistry == InitRegistry /\ [][NextRegistry]_vars

\* ============================================= listeners that act
\* What the application's code does when the connection calls it during a
\* transition: nothing (Quiet), or connection.close() on a socket that reports
\* the close before close() returns, either from the last notification of the
\* loops of _setState ("notify") or from a listener of the state-named event
\* ("event").
Hearings == {Quiet, "notify", "event"}

\* the application's code called at the point at: if that is where it acts it
\* calls connection.close(), the socket's close() calls onclose('closed') and
\* that calls _setState('closed', 'closed'), whose own listeners are quiet
listen(k, at, hear) ==
    IF hear = at
    THEN setState(Trace(Trace(k, [kind |-> "listener", at |-> at, st |-> k.state]), [kind |-> "socketClose", st |-> k.state]),
                  "closed", "closed", NoReact)
    ELSE k

\* _setState from the accepted transition on, with the application's code
applyTransitionHeard(k, newState, reason, react, hear) ==
    LET k1 == updateState(k, newState)
        k2 == IF newState \in DownStates THEN reset(k1) ELSE k1
        k3 == startBulk(k2)
        k4 == notifyQueries(k3, k3.queries, 1)
        k5 == notifyDocs(k4, DocList(k4.collections), 1, react)
        k6 == IF Len(k.queries) + Len(DocList(k.collections)) > 0 THEN listen(k5, "notify", hear) ELSE k5
        k7 == endBulk(k6)
        k8 == emit(k7, newState, "", reason, 0)
        k9 == listen(k8, "event", hear)
    IN  emit(k9, "state", newState, reason, 0)

\* Connection._setState, with the application's code
setStateHeard(k, newState, reason, react, hear) ==
    IF k.state = newState THEN k
    ELSE IF illegalTransition(k.state, newState) THEN emit(k, "error", "", "", 5007)
    ELSE applyTransitionHeard(k, newState, reason, react, hear)

\* the state socket.onclose asks for
stateOnClose(reason) ==
    IF reason = "closed" \/ reason = "Closed" THEN "closed"
    ELSE IF reason = "stopped" \/ reason = "Stopped by server" THEN "stopped"
    ELSE "disconnected"

\* socket.onclose, with the application's code
oncloseHeard(k, reason, hear) == setStateHeard(k, stateOnClose(reason), reason, NoReact, hear)

\* socket.onopen, with the application's code
onopenHeard(k, hear) == setStateHeard(k, "connecting", NoReason, NoReact, hear)

\* socket.onmessage of an init message, with the application's code
onmessageHeard(k, msg, react, hear) ==
    IF msg \notin GoodInits \/ hear \in Receivings THEN onmessage(k, msg, react, IF hear \in Receivings THEN hear ELSE Quiet)
    ELSE setStateHeard([emit(k, "receive", "", "", 0) EXCEPT !.id = msg.id], "connected", NoReason, react, hear)

OnOpenHeard(hear) ==
    /\ Idle
    /\ call' = [op |-> "onopen", hear |-> hear]
    /\ Commit(onopenHeard(Cur, hear))
    /\ UNCHANGED docs

OnCloseHeard(reason, hear) ==
    /\ Idle
    /\ call' = [op |-> "onclose", reason |-> reason, hear |-> hear]
    /\ Commit(oncloseHeard(Cur, reason, hear))
    /\ UNCHANGED docs

OnMessageHeard(msg, react, hear) ==
    /\ Idle
    /\ hear = "throw" => Len(timers) < MaxThrows
    /\ call' = [op |-> "onmessage", msg |-> msg, react |-> react, hear |-> hear]
    /\ Assign(onmessageHeard(Cur, msg, react, hear))
    /\ timers' = timers \o Deferred(log')
    /\ UNCHANGED <<returned, pending, waits>>
    /\ UNCHANGED docs

\* The socket's callbacks while the application's listeners may close the
\* connection from inside a transition.
NextListen ==
    \/ Return
    \/ \E hear \in Hearings : OnOpenHeard(hear)
    \/ \E reason \in {"closed", "Stopped by server", "Request failed"}, hear \in Hearings : OnCloseHeard(reason, hear)
    \/ \E msg \in GoodInit : \E react \in ReactionsTo("connected"), hear \in Hearings \cup {"drop"} : OnMessageHeard(msg, react, hear)
    \/ \E key \in LifeCycleKeys : Get(key[1], key[2])
    \/ \E action \in {"qs"} : CreateQuery(action)

SpecListen == Init /\ [][NextListen]_vars

\* ==================================================== whenNothingPending
\* whenNothingPending calls made in one behaviour
MaxWaits == 1

\* The pending-work bookkeeping as a record; log is the trace of the running
\* handler.  pending.once lists the one-shot listeners whenNothingPending
\* registered on Doc and Query objects, in the order they were registered.
CurPending == [pending |-> pending, waits |-> waits, timers |-> timers, log |-> <<>>]

CommitPending(n) ==
    /\ pending' = n.pending
    /\ waits' = n.waits
    /\ timers' = n.timers
    /\ log' = n.log
    /\ UNCHANGED <<state, canSend, seq, id, agent, collections, queries, nextQueryId, bulk, docs, returned>>
    /\ UNCHANGED pubsubVars

\* Connection._firstDoc(Connection.hasPending): 0 is undefined
firstDoc(cols, pendingDocs) ==
    LET l == SelectSeq(DocList(cols), LAMBDA i : i \in pendingDocs)
    IN  IF l = <<>> THEN 0 ELSE Head(l)

\* Connection._firstQuery(Connection.hasPending): 0 is undefined
firstQuery(qs, pendingQueries) ==
    LET l == SelectSeq(qs, LAMBDA q : q \in pendingQueries)
    IN  IF l = <<>> THEN 0 ELSE Head(l)

\* object.once(event, this._nothingPendingRetry(callback))
once(n, kind, on, w) ==
    Trace([n EXCEPT !.pending.once = Append(@, [kind |-> kind, on |-> on, w |-> w]),
                    !.waits[w].at = kind, !.waits[w].on = on],
          [kind |-> "once", target |-> kind, on |-> on, w |-> w])

\* process.nextTick(fn)
nextTick(n, fn, w) ==
    Trace([n EXCEPT !.timers = Append(@, [fn |-> fn, w |-> w]), !.waits[w].at = fn, !.waits[w].on = 0],
          [kind |-> "nextTick", fn |-> fn, w |-> w])

\* whenNothingPending that looks at the queries before the documents
whenNothingPendingQueriesFirst(n, cols, qs, w) ==
    LET doc == firstDoc(cols, n.pending.docs)
        query == firstQuery(qs, n.pending.queries)
        n1 == Trace(n, [kind |-> "scan", doc |-> doc, query |-> query, w |-> w])
    IN  IF query # 0 THEN once(n1, "query", query, w)
        ELSE IF doc # 0 THEN once(n1, "doc", doc, w)
        ELSE nextTick(n1, "callback", w)

\* Connection.whenNothingPending, for the call w
whenNothingPending(n, cols, qs, w) ==
    LET doc == firstDoc(cols, n.pending.docs)
        query == firstQuery(qs, n.pending.queries)
        n1 == Trace(n, [kind |-> "scan", doc |-> doc, query |-> query, w |-> w])
    IN  IF doc # 0 THEN once(n1, "doc", doc, w)
        ELSE IF query # 0 THEN once(n1, "query", query, w)
        ELSE nextTick(n1, "callback", w)

\* a listener that forgets the re-scan
nothingPendingRetryDrops(n, w) == n

\* the function _nothingPendingRetry returns: the listener defers the re-scan
nothingPendingRetry(n, w) == nextTick(n, "retry", w)

RECURSIVE fire(_, _)
fire(n, listeners) == IF listeners = <<>> THEN n ELSE fire(nothingPendingRetry(n, Head(listeners).w), Tail(listeners))

\* a Doc emits 'nothing pending' (kind "doc") or a Query emits 'ready' (kind
\* "query"): it reports nothing pending, and its one-shot listeners run
emitSettled(n, kind, on) ==
    LET hit(e) == e.kind = kind /\ e.on = on
        n1 == [n EXCEPT !.pending.once = SelectSeq(@, LAMBDA e : ~hit(e))]
    IN  fire(Trace(n1, [kind |-> "settled", target |-> kind, on |-> on]), SelectSeq(n.pending.once, hit))

\* the oldest function whenNothingPending handed to process.nextTick runs
pendingTick(n, cols, qs) ==
    LET t == Head(n.timers)
        n1 == [n EXCEPT !.timers = Tail(@)]
    IN  IF t.fn = "retry" THEN whenNothingPending(n1, cols, qs, t.w)
        ELSE Trace([n1 EXCEPT !.waits[t.w].at = "called", !.waits[t.w].calls = @ + 1], [kind |-> "callback", w |-> t.w])

\* connection.whenNothingPending(callback)
WhenNothingPending ==
    /\ Idle
    /\ Len(waits) < MaxWaits
    /\ call' = [op |-> "whenNothingPending", w |-> Len(waits) + 1]
    /\ CommitPending(whenNothingPending([CurPending EXCEPT !.waits = Append(@, [at |-> "", on |-> 0, calls |-> 0])],
                                        collections, queries, Len(waits) + 1))

\* a Doc gets pending work (a fetch, a subscribe or an op in progress)
DocPending(i) ==
    /\ Idle
    /\ i \notin pending.docs
    /\ call' = [op |-> "doc pending", doc |-> i]
    /\ CommitPending([CurPending EXCEPT !.pending.docs = @ \cup {i}])

\* a Doc with nothing pending emits 'nothing pending'
DocNothingPending(i) ==
    /\ Idle
    /\ call' = [op |-> "doc nothing pending", doc |-> i]
    /\ CommitPending(emitSettled([CurPending EXCEPT !.pending.docs = @ \ {i}], "doc", i))

\* a Query receives its results and emits 'ready'
QueryReady(q) ==
    /\ Idle
    /\ call' = [op |-> "query ready", q |-> q]
    /\ CommitPending(emitSettled([CurPending EXCEPT !.pending.queries = @ \ {q}], "query", q))

PendingTick ==
    /\ Idle
    /\ timers # <<>>
    /\ Head(timers).fn # "error"
    /\ call' = [op |-> "pendingTick", fn |-> Head(timers).fn, w |-> Head(timers).w]
    /\ CommitPending(pendingTick(CurPending, collections, queries))

InitPending == ConstructPubSub(NoPrefix) /\ returned = NoneTracked /\ ConstructConnection(3)

\* Pending work: documents and queries come, go, get and lose pending work
\* while whenNothingPending waits.
NextPending ==
    \/ Return
    \/ \E key \in LifeCycleKeys : Get(key[1], key[2])
    \/ \E i \in DocIdents : DestroyDoc(i)
    \/ \E action \in {"qs"} : CreateQuery(action)
    \/ \E i \in 1..Len(queries) : DestroyQuery(queries[i])
    \/ WhenNothingPending
    \/ \E i \in DocIdents : DocPending(i)
    \/ \E i \in DocIdents : DocNothingPending(i)
    \/ \E q \in 1..(nextQueryId - 1) : QueryReady(q)
    \/ PendingTick

SpecPending == InitPending /\ [][NextPending]_vars

\* Pending work with the event loop's scheduling: the socket is rebound and
\* closed while calls wait, a running handler returns (WF), and a function
\* handed to process.nextTick runs (SF: it can run whenever the loop is idle).
NextSettle ==
    \/ NextPending
    \/ BindToSocket(0, "async")
    \/ OnClose("closed")

SpecSettle == InitPending /\ [][NextSettle]_vars /\ WF_vars(Return) /\ SF_vars(PendingTick)

\* ========================================================= the PubSub core
\* subscribe calls made in one behaviour
MaxSubscribes == 3

\* The PubSub object and its surroundings as a record; log is the trace of
\* the running handler.
CurPubSub == [prefix |-> prefix, nextStreamId |-> nextStreamId,
              streamsCount |-> streamsCount, streams |-> streams,
              subscribed |-> subscribed, transport |-> transport,
              ticks |-> ticks, opStreams |-> opStreams,
              requests |-> requests, log |-> <<>>]

CommitPubSub(p) ==
    /\ prefix' = p.prefix
    /\ nextStreamId' = p.nextStreamId
    /\ streamsCount' = p.streamsCount
    /\ streams' = p.streams
    /\ subscribed' = p.subscribed
    /\ transport' = p.transport
    /\ ticks' = p.ticks
    /\ opStreams' = p.opStreams
    /\ requests' = p.requests
    /\ log' = p.log
    /\ UNCHANGED <<state, canSend, seq, id, agent, collections, queries, nextQueryId, bulk, docs, returned, pendingVars>>

\* channel = this.prefix + ' ' + channel, when a prefix is configured
prefixed(p, channel) == IF p.prefix # NoPrefix THEN p.prefix \o " " \o channel ELSE channel

\* the abstract _subscribe / _unsubscribe: the request travels to the
\* transport, which answers it later, requests in the order they were made
transportRequest(p, op, channel, req) ==
    Trace([p EXCEPT !.transport.queue = Append(@, [op |-> op, channel |-> channel, req |-> req])],
          [kind |-> op, channel |-> channel, req |-> req])

\* PubSub._createStream; the new stream's id is p.nextStreamId
createStream(p, channel) ==
    LET sid == p.nextStreamId
        map == IF OHas(p.streams, channel) THEN OGet(p.streams, channel) ELSE <<>>
        p1 == [p EXCEPT !.opStreams = Append(@, [channel |-> channel, open |-> TRUE]),
                        !.streamsCount = @ + 1,
                        !.streams = OPut(@, channel, Append(map, sid)),
                        !.nextStreamId = @ + 1]
    IN  Trace(p1, [kind |-> "createStream", channel |-> channel, stream |-> sid])

\* callback(err, stream) of the subscribe call req
callback(p, req, err, stream) ==
    Trace([p EXCEPT !.requests[req].calls = @ + 1, !.requests[req].stream = stream, !.requests[req].err = err],
          [kind |-> "callback", req |-> req, err |-> err, stream |-> stream])

\* _removeStream leaving the emptied inner map in streams
removeStreamKeepsEntry(p, channel, stream) ==
    IF ~OHas(p.streams, channel) THEN p
    ELSE LET map == SelectSeq(OGet(p.streams, channel), LAMBDA i : i # stream)
             p1 == [p EXCEPT !.streamsCount = @ - 1]
         IN  IF Len(map) > 0 THEN [p1 EXCEPT !.streams = OPut(@, channel, map)]
             ELSE transportRequest([p1 EXCEPT !.streams = OPut(@, channel, map),
                                              !.subscribed = @ \ {channel}],
                                   "_unsubscribe", channel, 0)

\* PubSub._removeStream
removeStream(p, channel, stream) ==
    IF ~OHas(p.streams, channel) THEN p
    ELSE LET map == SelectSeq(OGet(p.streams, channel), LAMBDA i : i # stream)
             p1 == [p EXCEPT !.streamsCount = @ - 1]
         IN  IF Len(map) > 0 THEN [p1 EXCEPT !.streams = OPut(@, channel, map)]
             ELSE transportRequest([p1 EXCEPT !.streams = ODel(@, channel),
                                              !.subscribed = @ \ {channel}],
                                   "_unsubscribe", channel, 0)

\* stream.destroy(): a stream closes once; its one-shot 'close' listener is
\* the _removeStream call registered by _createStream
destroy(p, stream) ==
    IF ~p.opStreams[stream].open THEN p
    ELSE removeStream(Trace([p EXCEPT !.opStreams[stream].open = FALSE], [kind |-> "close", stream |-> stream]),
                      p.opStreams[stream].channel, stream)

\* subscribe asking the transport whatever the subscribed flag says
subscribeAlwaysAsks(p, channel) ==
    LET ch == prefixed(p, channel)
        req == Len(p.requests) + 1
        p1 == [p EXCEPT !.requests = Append(@, [channel |-> ch, path |-> IF ch \in p.subscribed THEN "nextTick" ELSE "_subscribe",
                                                calls |-> 0, stream |-> 0, err |-> FALSE])]
    IN  transportRequest(p1, "_subscribe", ch, req)

\* PubSub.subscribe, up to its return
subscribe(p, channel) ==
    LET ch == prefixed(p, channel)
        req == Len(p.requests) + 1
        p1 == [p EXCEPT !.requests = Append(@, [channel |-> ch, path |-> IF ch \in p.subscribed THEN "nextTick" ELSE "_subscribe",
                                                calls |-> 0, stream |-> 0, err |-> FALSE])]
    IN  IF ch \in p.subscribed
        THEN Trace([p1 EXCEPT !.ticks = Append(@, [channel |-> ch, req |-> req])],
                   [kind |-> "nextTick", channel |-> ch, req |-> req])
        ELSE transportRequest(p1, "_subscribe", ch, req)

\* the function subscribe handed to process.nextTick
subscribeTick(p, t) == callback(createStream(p, t.channel), t.req, FALSE, p.nextStreamId)

\* the function subscribe handed to _subscribe
subscribeCallback(p, t, err) ==
    IF err THEN callback(p, t.req, TRUE, 0)
    ELSE callback(createStream([p EXCEPT !.subscribed = @ \cup {t.channel}], t.channel), t.req, FALSE, p.nextStreamId)

\* the function _removeStream hands to _unsubscribe
unsubscribeCallback(p, err) == IF err THEN Trace(p, [kind |-> "throw"]) ELSE p

\* the transport answers its oldest request: a subscribe or unsubscribe
\* that succeeds changes what the transport is subscribed to
transportAnswer(p, err) ==
    LET t == Head(p.transport.queue)
        p1 == [p EXCEPT !.transport.queue = Tail(@)]
    IN  IF t.op = "_subscribe"
        THEN subscribeCallback(IF err THEN p1 ELSE [p1 EXCEPT !.transport.channels = @ \cup {t.channel}], t, err)
        ELSE unsubscribeCallback(IF err THEN p1 ELSE [p1 EXCEPT !.transport.channels = @ \ {t.channel}], err)

RECURSIVE destroyAll(_, _)
destroyAll(p, ids) == IF ids = <<>> THEN p ELSE destroyAll(destroy(p, Head(ids)), Tail(ids))

\* a close whose outer loop ends after the first channel it visits
closeLoopFirstOnly(p, channels) ==
    IF channels = <<>> THEN p
    ELSE IF OHas(p.streams, Head(channels)) THEN destroyAll(p, OGet(p.streams, Head(channels))) ELSE p

RECURSIVE closeLoop(_, _)
\* for (const channel in this.streams) for (const id in map) map[id].destroy()
closeLoop(p, channels) ==
    IF channels = <<>> THEN p
    ELSE closeLoop(IF OHas(p.streams, Head(channels)) THEN destroyAll(p, OGet(p.streams, Head(channels))) ELSE p,
                   Tail(channels))

\* PubSub.close
closePubSub(p, hasCallback) ==
    LET p1 == closeLoop(p, OKeys(p.streams))
    IN  IF hasCallback THEN Trace(p1, [kind |-> "closeCallback"]) ELSE p1

\* pubsub.subscribe(channel, callback)
Subscribe(channel) ==
    /\ Idle
    /\ Len(requests) < MaxSubscribes
    /\ call' = [op |-> "PubSub.subscribe", channel |-> channel]
    /\ CommitPubSub(subscribe(CurPubSub, channel))

\* the oldest function queued with process.nextTick runs
NextTick ==
    /\ Idle
    /\ ticks # <<>>
    /\ call' = [op |-> "nextTick", req |-> Head(ticks).req]
    /\ CommitPubSub(subscribeTick([CurPubSub EXCEPT !.ticks = Tail(@)], Head(ticks)))

\* the transport calls back on its oldest request
TransportAnswer(err) ==
    /\ Idle
    /\ transport.queue # <<>>
    /\ call' = [op |-> "transport", request |-> Head(transport.queue), err |-> err]
    /\ CommitPubSub(transportAnswer(CurPubSub, err))

\* a subscriber closes a stream it was handed (closing twice is allowed)
DestroyStream(stream) ==
    /\ Idle
    /\ call' = [op |-> "stream.destroy", stream |-> stream, wasOpen |-> opStreams[stream].open]
    /\ CommitPubSub(destroy(CurPubSub, stream))

\* pubsub.close(callback)
ClosePubSub(hasCallback) ==
    /\ Idle
    /\ call' = [op |-> "PubSub.close", hasCallback |-> hasCallback]
    /\ CommitPubSub(closePubSub(CurPubSub, hasCallback))

InitPubSub == ConstructConnection(3) /\ returned = NoneTracked /\ \E p \in Prefixes : ConstructPubSub(p)

\* The PubSub core: subscribers, the transport and the tick queue interleave.
NextPubSub ==
    \/ Return
    \/ \E channel \in Channels : Subscribe(channel)
    \/ NextTick
    \/ \E err \in BOOLEAN : TransportAnswer(err)
    \/ \E stream \in 1..Len(opStreams) : DestroyStream(stream)
    \/ \E hasCallback \in BOOLEAN : ClosePubSub(hasCallback)

SpecPubSub == InitPubSub /\ [][NextPubSub]_vars

\* ======================================================== the properties
LogIdx == 1..Len(log)

\* socket.onmessage ran, the message reached handleMessage and every handler
\* it called returned
Handled(c) == c.op = "onmessage" /\ c.hear = Quiet

IsEmit(e, name) == e.kind = "emit" /\ e.name = name

CountEmits(l, name) == Cardinality({i \in 1..Len(l) : IsEmit(l[i], name)})

HasUpdate(l) == \E i \in 1..Len(l) : l[i].kind = "update"

\* C1: in every reachable state, canSend is true if and only if state is
\* 'connected'
C1_CanSendIffConnected == canSend <=> (state = "connected")

\* the transitions the state diagram allows
LegalTransition(from, to) ==
    \/ (from = "connecting" /\ to = "connected")
    \/ (from \in DownStates /\ to = "connecting")
    \/ to \in DownStates

\* the update entries of a trace, in order
Updates(l) == SelectSeq(l, LAMBDA e : e.kind = "update")

\* C2: every change of state is made by _setState and is a legal transition:
\* the updates a handler makes chain from the old state to the new one, and
\* each of them is connecting->connected, down->connecting or any->down
C2_OnlyLegalTransitions ==
    [][LET ups == Updates(log')
       IN  /\ Len(ups) = 0 => state' = state
           /\ Len(ups) > 0 => ups[1].from = state /\ ups[Len(ups)].to = state'
           /\ \A i \in 1..Len(ups) : LegalTransition(ups[i].from, ups[i].to) /\ ups[i].from # ups[i].to
           /\ \A i \in 1..(Len(ups) - 1) : ups[i + 1].from = ups[i].to]_vars

C2_Witness == \E i \in LogIdx : log[i].kind = "update" /\ log[i].from = "connecting" /\ log[i].to = "connected"

\* the pairs the claim C3 calls not legal
ClaimedIllegal(from, to) ==
    \/ (to = "connecting" /\ from \notin DownStates)
    \/ (to = "connected" /\ from # "connecting")

\* the state a handler that is one _setState call asks for
Requested(c) == IF c.op = "onopen" THEN "connecting" ELSE c.newState

\* the effect of a rejected request: nothing changes and the trace is one
\* 'error' event with code 5007
Rejected ==
    /\ UNCHANGED <<state, canSend, seq, id, agent, collections, queries, nextQueryId, bulk, docs>>
    /\ Len(log') = 1
    /\ IsEmit(log'[1], "error") /\ log'[1].code = 5007

\* C3 as claimed: every _setState(new) whose (state, new) pair is not a legal
\* transition, the pair (s, s) included, is rejected with one error 5007
C3_Original == [][(call'.op \in {"_setState", "onopen"} /\ ClaimedIllegal(state, Requested(call'))) => Rejected]_vars

\* C3, amended: every _setState(new) with new different from the current
\* state whose (state, new) pair is not a legal transition is rejected: state,
\* canSend, seq, id and the registries are unchanged, nothing is notified and
\* exactly one 'error' event with code 5007 is emitted
C3_IllegalRejected == [][(call'.op \in {"_setState", "onopen"} /\ Requested(call') # state /\ ClaimedIllegal(state, Requested(call'))) => Rejected]_vars

C3_Witness == call.op = "_setState" /\ call.newState = "connected" /\ state = "disconnected" /\ Len(log) = 1 /\ log[1].code = 5007 /\ Len(collections) > 0

\* C4: a handler that makes an accepted transition leaves both registries and
\* nextQueryId as they were, and one that enters disconnected, closed or
\* stopped leaves seq = 1, no client id and no agent
C4_ResetKeepsRegistries ==
    [][/\ HasUpdate(log') => UNCHANGED <<collections, queries, nextQueryId>>
       /\ (\E i \in 1..Len(log') : log'[i].kind = "update" /\ log'[i].to \in DownStates) => seq' = 1 /\ id' = NoId /\ agent' = FALSE]_vars

C4_Witness ==
    /\ state \in DownStates
    /\ \E i \in LogIdx : log[i].kind = "reset" /\ log[i].seqWas > 1 /\ log[i].idWas # NoId /\ log[i].agentWas
    /\ Len(collections) > 0
    /\ Len(queries) > 0

\* the index of the first 'state' event after entry i of the trace, 0 if none
StateEventAfter(i) ==
    LET J == {j \in (i + 1)..Len(log) : IsEmit(log[j], "state")}
    IN  IF J = {} THEN 0 ELSE CHOOSE j \in J : \A j2 \in J : j <= j2

KindIn(kind, lo, hi) == {n \in (lo + 1)..(hi - 1) : log[n].kind = kind}

SeqRange(q) == {q[n] : n \in 1..Len(q)}

\* the steps of the accepted transition whose update is entry i of the trace
TransitionInOrder(i) ==
    LET new == log[i].to
        j == StateEventAfter(i)
    IN  /\ j # 0
        \* (1) state and canSend are updated first, the reset follows at once
        /\ log[i].st = new /\ log[i].cs = (new = "connected")
        /\ \A n \in i..j : log[n].st = new
        /\ KindIn("reset", i, j) = (IF new \in DownStates THEN {i + 1} ELSE {})
        /\ Cardinality(KindIn("startBulk", i, j)) = 1
        /\ Cardinality(KindIn("endBulk", i, j)) = 1
        /\ LET sb == CHOOSE n \in KindIn("startBulk", i, j) : TRUE
               eb == CHOOSE n \in KindIn("endBulk", i, j) : TRUE
           IN  /\ sb = (IF new \in DownStates THEN i + 2 ELSE i + 1)
               \* (2) each registered query and document is notified once, in the window
               /\ \A q \in SeqRange(queries) : Cardinality({n \in KindIn("notifyQuery", i, j) : log[n].q = q}) = 1
               /\ \A d \in SeqRange(DocList(collections)) : Cardinality({n \in KindIn("notifyDoc", i, j) : log[n].doc = d}) = 1
               /\ Cardinality(KindIn("notifyQuery", i, j)) = Len(queries)
               /\ Cardinality(KindIn("notifyDoc", i, j)) = Len(DocList(collections))
               /\ \A n \in KindIn("notifyQuery", i, j) \cup KindIn("notifyDoc", i, j) : sb < n /\ n < eb /\ log[n].open /\ log[n].cs = (new = "connected")
               \* nothing is sent inside the window
               /\ \A n \in (sb + 1)..(eb - 1) : log[n].kind \in {"notifyQuery", "notifyDoc", "record"}
               \* (3) the flush: the frames of endBulk, and only they, follow it
               /\ \A n \in (eb + 1)..(j - 2) : log[n].kind = "send"
               /\ Cardinality(KindIn("record", i, j)) > 0 => Cardinality(KindIn("send", i, j)) > 0
               \* (4) the state-named event, (5) the 'state' event
               /\ j - 1 > eb
               /\ IsEmit(log[j - 1], new) /\ IsEmit(log[j], "state")
               /\ log[j].a1 = new /\ log[j].a2 = log[j - 1].a2

\* C5: every accepted transition runs in this order: state and canSend are
\* updated (and reset applied on entering a down state); every registered
\* query and document is notified exactly once inside a bulk window; the
\* window is flushed; the state-named event is emitted; the 'state' event
\* (new state, reason) is emitted last
C5_TransitionOrder == \A i \in LogIdx : log[i].kind = "update" => TransitionInOrder(i)

C5_Witness ==
    /\ \E i \in LogIdx : log[i].kind = "update" /\ log[i].to = "connected"
    /\ \E i \in LogIdx : log[i].kind = "send" /\ log[i].frame.form = "map"
    /\ Len(queries) > 0

\* the checks of an init message, as the claim C9 states them
InitProtocolOk(m) == m.protocol = 1

InitTypeOk(m) == m.type \in {"json0", "http://sharejs.org/types/JSONv0"}

InitIdOk(m) == m.idIsString

InitErrorCode(m) == IF ~InitProtocolOk(m) THEN 4019 ELSE IF ~InitTypeOk(m) THEN 4020 ELSE 4021

\* C9: an init message handled while connecting either passes the three
\* checks, and then id = message.id, state = connected, canSend holds and
\* 'connected' fires once; or fails the first of them with one 'error' event
\* of code 4019, 4020 or 4021 and leaves state, canSend and id unchanged
C9_InitHandshake ==
    [][(Handled(call') /\ call'.msg.a = "init" /\ state = "connecting") =>
         LET m == call'.msg
         IN  IF InitProtocolOk(m) /\ InitTypeOk(m) /\ InitIdOk(m)
             THEN /\ id' = m.id /\ state' = "connected" /\ canSend'
                  /\ CountEmits(log', "connected") = 1
                  /\ CountEmits(log', "error") = 0
             ELSE /\ CountEmits(log', "error") = 1
                  /\ \A n \in 1..Len(log') : IsEmit(log'[n], "error") => log'[n].code = InitErrorCode(m)
                  /\ UNCHANGED <<state, canSend, id>>
                  /\ CountEmits(log', "connected") = 0]_vars

C9_Witness == Handled(call) /\ call.msg.a = "init" /\ ~call.msg.idIsString /\ call.msg.type = "text0" /\ call.msg.protocol = 1 /\ state = "connecting" /\ CountEmits(log, "error") = 1

\* ------------------------------------------------------- the bulk layer
\* what the accumulator acc holds for (c, a): an ordered map docId -> version
AccEntries(acc, c, a) == IF acc.open /\ OHas(acc.m, c) THEN OGet(acc.m, c)[a] ELSE <<>>

IsVersioned(v) == v >= 0

AbsentIds(acc, c, a) == {e.k : e \in {x \in SeqRange(AccEntries(acc, c, a)) : ~IsVersioned(x.v)}}

VersionedIds(acc, c, a) == {e.k : e \in {x \in SeqRange(AccEntries(acc, c, a)) : IsVersioned(x.v)}}

\* the frames the endBulk at entry i emits: the send entries that follow it
FlushOf(i) == {n \in (i + 1)..Len(log) : \A n2 \in (i + 1)..n : log[n2].kind = "send"}

\* those of them that belong to (c, a), in single or bulk form
FramesFor(i, c, a) == {n \in FlushOf(i) : log[n].frame.c = c /\ log[n].frame.a \in {a, "b" \o a}}

\* C6: for every endBulk and every (collection, action) the number of frames
\* emitted is 0, 1 or 2, and 2 only when the accumulator holds a versioned
\* and a version-absent entry for the pair; an empty window emits nothing
C6_FramesPerPair ==
    \A i \in LogIdx : log[i].kind = "endBulk" =>
        /\ \A c \in Collections, a \in BulkActions :
              LET n == Cardinality(FramesFor(i, c, a))
              IN  /\ n \in {0, 1, 2}
                  /\ n = 2 => AbsentIds(log[i].acc, c, a) # {} /\ VersionedIds(log[i].acc, c, a) # {}
        /\ BulkSize(log[i].acc) = 0 => FlushOf(i) = {}

C6_Witness ==
    \E i \in LogIdx : log[i].kind = "endBulk" /\ \E c \in Collections, a \in BulkActions : Cardinality(FramesFor(i, c, a)) = 2

\* the frames of (c, a) are exactly: one for the version-absent group, one
\* for the versioned group, each in single form for one entry and in bulk
\* form for more
GroupFramesExact(i, c, a) ==
    LET A == AbsentIds(log[i].acc, c, a)
        V == VersionedIds(log[i].acc, c, a)
        E == AccEntries(log[i].acc, c, a)
        F == FramesFor(i, c, a)
        absentFrames == {n \in F : log[n].frame.form = "list" \/ (log[n].frame.form = "single" /\ log[n].frame.v = Undefined)}
        versionedFrames == F \ absentFrames
    IN  /\ Cardinality(absentFrames) = (IF A = {} THEN 0 ELSE 1)
        /\ Cardinality(versionedFrames) = (IF V = {} THEN 0 ELSE 1)
        /\ \A n \in absentFrames :
              IF Cardinality(A) = 1
              THEN log[n].frame.form = "single" /\ log[n].frame.a = a /\ log[n].frame.d \in A
              ELSE /\ log[n].frame.form = "list" /\ log[n].frame.a = "b" \o a
                   /\ SeqRange(log[n].frame.ids) = A /\ Len(log[n].frame.ids) = Cardinality(A)
        /\ \A n \in versionedFrames :
              IF Cardinality(V) = 1
              THEN /\ log[n].frame.form = "single" /\ log[n].frame.a = a /\ log[n].frame.d \in V
                   /\ log[n].frame.v = OGet(E, log[n].frame.d)
              ELSE /\ log[n].frame.form = "map" /\ log[n].frame.a = "b" \o a
                   /\ {e.k : e \in SeqRange(log[n].frame.vers)} = V /\ Len(log[n].frame.vers) = Cardinality(V)
                   /\ \A e \in SeqRange(log[n].frame.vers) : e.v = OGet(E, e.k)

\* endBulk emits the frames of the recorded pairs and no other
FlushExact ==
    \A i \in LogIdx : log[i].kind = "endBulk" =>
        /\ \A c \in Collections, a \in BulkActions : GroupFramesExact(i, c, a)
        /\ \A n \in FlushOf(i) : \E c \in Collections, a \in BulkActions : n \in FramesFor(i, c, a)

\* a recording call puts (action, docId) -> version into the accumulator,
\* leaves every other entry as it was, sends nothing and returns whether
\* the pair was already recorded
RecordStep ==
    (call'.op \in {"sendFetch", "sendSubscribe", "sendUnsubscribe"} /\ bulk.open) =>
        LET doc == docs[call'.doc]
        IN  /\ bulk'.open
            /\ \A c \in Collections, a \in BulkActions :
                  IF c = doc.c /\ a = call'.a
                  THEN /\ OHas(AccEntries(bulk', c, a), doc.d)
                       /\ OGet(AccEntries(bulk', c, a), doc.d) = call'.v
                       /\ \A e \in SeqRange(AccEntries(bulk, c, a)) : e.k # doc.d => e \in SeqRange(AccEntries(bulk', c, a))
                       /\ Len(AccEntries(bulk', c, a)) = Len(AccEntries(bulk, c, a)) + (IF OHas(AccEntries(bulk, c, a), doc.d) THEN 0 ELSE 1)
                  ELSE AccEntries(bulk', c, a) = AccEntries(bulk, c, a)
            /\ Len(log') = 1 /\ log'[1].kind = "record"
            /\ log'[1].ret = OHas(AccEntries(bulk, doc.c, call'.a), doc.d)

\* C7: endBulk loses and duplicates nothing: each recorded docId is in
\* exactly one frame of its (collection, action) with the version last
\* recorded for it; a group of one entry goes out in single form, a larger
\* one as one 'b' + a frame; version 0 is versioned; a repeated recording
\* overwrites the earlier one and _sendAction returns true for it
C7_FlushExact == [][RecordStep]_vars /\ []FlushExact

C7_Witness ==
    /\ call.op = "endBulk"
    /\ \E i \in LogIdx : log[i].kind = "send" /\ log[i].frame.form = "map" /\ \E e \in SeqRange(log[i].frame.vers) : e.v = 0

\* C8: no frame reaches socket.send while state is not 'connected' (the
\* document layer sending only while canSend)
C8_NoSendUnlessConnected == \A i \in LogIdx : log[i].kind = "send" => log[i].st = "connected"

\* ------------------------------------------------------ inbound dispatch
BulkMethod(a) == IF a = "bf" THEN "_handleFetch" ELSE IF a = "bs" THEN "_handleSubscribe" ELSE "_handleUnsubscribe"

\* C10: a bulk reply that carries an error envelope hands that error to the
\* handler of every registered document it names (with the per-doc payload
\* when it carries data), and calls no other handler
C10_BulkErrorForwarded ==
    (Handled(call) /\ call.msg.a \in {"bf", "bs", "bu"} /\ call.msg.error # 0) =>
        LET m == call.msg
            named == {d \in SeqRange(m.keys) : getExisting(Cur, m.c, d) # 0}
            calls == {n \in LogIdx : log[n].kind = "call"}
        IN  /\ Cardinality(calls) = Cardinality(named)
            /\ \A d \in named : \E n \in calls :
                  /\ log[n].doc = getExisting(Cur, m.c, d)
                  /\ log[n].method = BulkMethod(m.a)
                  /\ log[n].err = m.error
                  /\ log[n].data = (IF m.form = "data" THEN d ELSE "")

\* ------------------------------------------------------ PubSub properties
KindCount(l, kind) == Cardinality({i \in 1..Len(l) : l[i].kind = kind})

\* the requests waiting in the tick queue
Ticking == {ticks[i].req : i \in 1..Len(ticks)}

\* a subscribe call on a channel whose subscribed flag is set
SubscribeWhileSubscribed ==
    (call'.op = "PubSub.subscribe" /\ prefixed(CurPubSub, call'.channel) \in subscribed) =>
        LET req == Len(requests) + 1
        IN  /\ KindCount(log', "_subscribe") = 0
            /\ KindCount(log', "callback") = 0
            /\ transport' = transport
            /\ Len(requests') = req /\ requests'[req].calls = 0
            /\ ticks' = Append(ticks, [channel |-> prefixed(CurPubSub, call'.channel), req |-> req])
            /\ UNCHANGED <<nextStreamId, streamsCount, streams, subscribed, opStreams>>

\* the tick of such a call: one new stream, handed to the call's callback
TickCreatesAndCallsBack ==
    (call'.op = "nextTick") =>
        LET req == call'.req
            sid == nextStreamId
        IN  /\ requests[req].calls = 0 /\ requests'[req].calls = 1
            /\ requests'[req].stream = sid /\ ~requests'[req].err
            /\ Len(opStreams') = Len(opStreams) + 1 /\ sid = Len(opStreams')
            /\ opStreams'[sid] = [channel |-> requests[req].channel, open |-> TRUE]
            /\ KindCount(log', "callback") = 1
            /\ \A i \in 1..Len(log') : log'[i].kind = "callback" => (log'[i].req = req /\ log'[i].stream = sid)

\* a call that took the tick path has been called back once, or not yet
\* while its tick is queued; its tick is queued at most once
TickPathOnce ==
    /\ \A r \in 1..Len(requests) : requests[r].path = "nextTick" =>
           requests[r].calls = (IF r \in Ticking THEN 0 ELSE 1)
    /\ Cardinality(Ticking) = Len(ticks)

\* C11: subscribe(c, cb) while subscribed[c] is true makes no transport
\* _subscribe call and does not invoke cb inside subscribe; cb is invoked
\* exactly once, by the queued tick, with a newly created stream
C11_SubscribedPathDeferred == [][SubscribeWhileSubscribed /\ TickCreatesAndCallsBack]_vars /\ []TickPathOnce

C11_Witness == call.op = "nextTick" /\ requests[call.req].path = "nextTick" /\ requests[call.req].calls = 1 /\ KindCount(log, "createStream") = 1

\* the channels that have an entry in streams
StreamChannels(m) == {m[i].k : i \in 1..Len(m)}

\* the transport has been asked to unsubscribe from ch and has not answered
UnsubscribeInFlight(ch) == \E i \in 1..Len(transport.queue) : transport.queue[i].op = "_unsubscribe" /\ transport.queue[i].channel = ch

\* the close of the last live stream of a channel: in that one step the
\* entry leaves streams, the flag is cleared and one _unsubscribe is issued
LastCloseClears ==
    (call'.op = "stream.destroy") =>
        \A ch \in StreamChannels(streams) \ StreamChannels(streams') :
            /\ ch \notin subscribed'
            /\ streamsCount' = streamsCount - 1
            /\ transport'.queue = Append(transport.queue, [op |-> "_unsubscribe", channel |-> ch, req |-> 0])

\* a subscribe call between that close and the transport's answer to the
\* unsubscribe asks the transport again and creates no stream itself
SubscribeBeforeUnsubscribeAnswered ==
    (call'.op = "PubSub.subscribe" /\ UnsubscribeInFlight(prefixed(CurPubSub, call'.channel))) =>
        LET ch == prefixed(CurPubSub, call'.channel)
            req == Len(requests) + 1
        IN  /\ transport'.queue = Append(transport.queue, [op |-> "_subscribe", channel |-> ch, req |-> req])
            /\ ticks' = ticks
            /\ UNCHANGED <<nextStreamId, streamsCount, streams, opStreams>>

\* C12: the close of the last live stream of c clears subscribed[c] in the
\* step that removes the stream and issues _unsubscribe(c), and every
\* subscribe(c) made before the transport answers that unsubscribe issues a
\* new transport _subscribe(c) and creates its stream only once that
\* subscribe is answered
C12_FreshSubscribeAfterLastClose == [][LastCloseClears /\ SubscribeBeforeUnsubscribeAnswered]_vars

\* the first half of C12 alone
C12_LastCloseClears == [][LastCloseClears]_vars

\* C13: whenever subscribed[c] is true the transport is subscribed to c: the
\* last request for c it has processed is a subscribe
C13_SubscribedImpliesTransport == subscribed \subseteq transport.channels

\* the streams created and not yet closed
Alive == {i \in 1..Len(opStreams) : opStreams[i].open}

\* the ids stored under a channel
StoredIds(ch) == IF OHas(streams, ch) THEN {OGet(streams, ch)[n] : n \in 1..Len(OGet(streams, ch))} ELSE {}

\* C14: a channel has an entry in streams exactly when a stream created for
\* it is alive; no entry is an empty map; every alive stream is stored under
\* its own channel and id, and nothing else is stored
C14_StreamsMatchAlive ==
    /\ \A i, j \in 1..Len(streams) : streams[i].k = streams[j].k => i = j
    /\ \A i \in 1..Len(streams) : Len(streams[i].v) > 0
    /\ \A ch \in StreamChannels(streams) : StoredIds(ch) = {i \in Alive : opStreams[i].channel = ch}
    /\ \A i \in Alive : i \in StoredIds(opStreams[i].channel)

C14_Witness == Len(streams) = 2 /\ Cardinality(Alive) = 2 /\ Len(opStreams) = 3 /\ call.op = "stream.destroy" /\ call.wasOpen

\* ------------------------------------------------- the caller's bulk window
\* Between handlers the accumulator is present only if a caller's startBulk
\* created it: _setState opens and closes its own window inside one handler.
SendOps == {"sendFetch", "sendSubscribe", "sendUnsubscribe"}

\* the accumulator stays until the caller's endBulk
WindowKept == (bulk.open /\ call'.op # "idle" /\ call'.op # "endBulk") => bulk'.open

\* a call inside the window is recorded and sends nothing
WindowRecords == (call'.op \in SendOps /\ bulk.open) => (bulk'.open /\ Len(log') = 1 /\ log'[1].kind = "record")

\* a call outside any window sends one single-form frame at once
NoWindowSendsSingle ==
    (call'.op \in SendOps /\ ~bulk.open) =>
        /\ ~bulk'.open
        /\ Len(log') = 1 /\ log'[1].kind = "send"
        /\ log'[1].frame = SingleFrame(call'.a, docs[call'.doc].c, docs[call'.doc].d, call'.v)

\* C15: the accumulator is present from a caller's startBulk() to that
\* caller's endBulk(), also across a state transition inside the interval;
\* every sendFetch/sendSubscribe/sendUnsubscribe in the interval is recorded
\* and sends nothing, and outside a window each sends one single-form frame
C15_AccumulatorDuringWindow == [][WindowKept /\ WindowRecords /\ NoWindowSendsSingle]_vars

\* C15 without the transition case
C15_RecordsOrSendsSingle == [][WindowRecords /\ NoWindowSendsSingle]_vars

\* ------------------------------------------------------ the Doc registry
\* a second get of a pair returns the Doc of the first and emits no 'doc'
GetAgain ==
    (call'.op = "get" /\ <<call'.c, call'.d>> \in DOMAIN returned /\ returned[<<call'.c, call'.d>>] # 0) =>
        /\ call'.ret = returned[<<call'.c, call'.d>>]
        /\ CountEmits(log', "doc") = 0
        /\ docs' = docs

\* a get of a pair with nothing registered (the first get, or the get that
\* follows _destroyDoc) constructs a Doc that no earlier call returned and
\* emits 'doc' for it
GetFresh ==
    (call'.op = "get" /\ getExisting(Cur, call'.c, call'.d) = 0) =>
        /\ call'.ret = Len(docs) + 1
        /\ docs' = Append(docs, [c |-> call'.c, d |-> call'.d])
        /\ CountEmits(log', "doc") = 1

\* C16: two get(collection, id) calls with no _destroyDoc of the pair in
\* between return the same Doc, whatever else happens in between, and only
\* the constructing call emits 'doc'; after _destroyDoc, get constructs and
\* returns a fresh Doc
C16_GetIdempotent == [][GetAgain /\ GetFresh]_vars

\* C16 for the get that finds nothing registered
C16_GetFresh == [][GetFresh]_vars

\* ------------------------------------------- whenNothingPending properties
\* the registered documents reporting pending, by their place in the scan
PendingPlaces == {j \in 1..Len(DocList(collections)) : DocList(collections)[j] \in pending.docs}

\* the registered queries reporting pending, by their place in the scan
PendingQueryPlaces == {j \in 1..Len(queries) : queries[j] \in pending.queries}

Least(S) == CHOOSE j \in S : \A o \in S : j <= o

\* a step that scans: the call itself, or the tick of a retry
ScanStep == call'.op = "whenNothingPending" \/ (call'.op = "pendingTick" /\ call'.fn = "retry")

\* the timers left once the running tick has been taken off
TimersBefore == IF call'.op = "pendingTick" THEN Tail(timers) ELSE timers

\* a scan waits for the first pending document, else for the first pending
\* query, else schedules the callback; it never calls back itself
ScanDecides ==
    ScanStep =>
        LET w == call'.w
        IN  /\ KindCount(log', "callback") = 0
            /\ waits'[w].calls = 0
            /\ KindCount(log', "scan") = 1
            /\ IF PendingPlaces # {}
               THEN /\ waits'[w].at = "doc" /\ waits'[w].on = DocList(collections)[Least(PendingPlaces)]
                    /\ pending'.once = Append(pending.once, [kind |-> "doc", on |-> waits'[w].on, w |-> w])
                    /\ timers' = TimersBefore
               ELSE IF PendingQueryPlaces # {}
               THEN /\ waits'[w].at = "query" /\ waits'[w].on = queries[Least(PendingQueryPlaces)]
                    /\ pending'.once = Append(pending.once, [kind |-> "query", on |-> waits'[w].on, w |-> w])
                    /\ timers' = TimersBefore
               ELSE /\ waits'[w].at = "callback"
                    /\ pending'.once = pending.once
                    /\ timers' = Append(TimersBefore, [fn |-> "callback", w |-> w])

\* the callback is scheduled only by a scan
ScheduledByScan == \A w \in 1..Len(waits') : (waits'[w].at = "callback" /\ (w > Len(waits) \/ waits[w].at # "callback")) => (ScanStep /\ call'.w = w)

\* the awaited event does not scan: it queues the retry for a later tick
EventDefers ==
    (call'.op \in {"doc nothing pending", "query ready"}) =>
        /\ KindCount(log', "scan") = 0 /\ KindCount(log', "callback") = 0
        /\ \A w \in 1..Len(waits) :
              LET target == IF call'.op = "doc nothing pending" THEN [kind |-> "doc", on |-> call'.doc] ELSE [kind |-> "query", on |-> call'.q]
              IN  IF waits[w].at = target.kind /\ waits[w].on = target.on
                  THEN waits'[w].at = "retry" /\ \E t \in 1..Len(timers') : timers'[t] = [fn |-> "retry", w |-> w]
                  ELSE waits'[w] = waits[w]

\* what a call is waiting for is registered exactly once, and the callback
\* has run once exactly when the call is finished
WaitsOnce ==
    \A w \in 1..Len(waits) :
        /\ waits[w].calls = (IF waits[w].at = "called" THEN 1 ELSE 0)
        /\ Cardinality({t \in 1..Len(timers) : timers[t].w = w}) = (IF waits[w].at \in {"retry", "callback"} THEN 1 ELSE 0)
        /\ \A t \in 1..Len(timers) : timers[t].w = w => timers[t].fn = waits[w].at
        /\ Cardinality({l \in 1..Len(pending.once) : pending.once[l].w = w}) = (IF waits[w].at \in {"doc", "query"} THEN 1 ELSE 0)
        /\ \A l \in 1..Len(pending.once) : pending.once[l].w = w => (pending.once[l].kind = waits[w].at /\ pending.once[l].on = waits[w].on)

\* C17: whenNothingPending(cb) never calls cb synchronously and calls it at
\* most once; cb is scheduled only by a scan that found no registered
\* document and no registered query pending; a scan that finds a pending
\* document (documents before queries) waits for its 'nothing pending', else
\* for the first pending query's 'ready', and the event restarts the whole
\* scan on a later tick
C17_ScanAndRetry == [][ScanDecides /\ ScheduledByScan /\ EventDefers]_vars /\ []WaitsOnce

C17_Witness ==
    /\ call.op = "pendingTick" /\ call.fn = "retry"
    /\ Len(DocList(collections)) = 2
    /\ waits[call.w].at = "doc" /\ waits[call.w].on = DocList(collections)[2]
    /\ PendingQueryPlaces # {}

\* ------------------------------------------------------ the close reasons
\* the state the close-reason mapping names
CloseTarget(reason) ==
    CASE reason \in {"closed", "Closed"} -> "closed"
      [] reason \in {"stopped", "Stopped by server"} -> "stopped"
      [] OTHER -> "disconnected"

EmitsWith(l, name, a1, a2) == {i \in 1..Len(l) : IsEmit(l[i], name) /\ l[i].a1 = a1 /\ l[i].a2 = a2}

\* C18: on-close(reason) requests 'closed' for "closed" and "Closed",
\* 'stopped' for "stopped" and "Stopped by server", 'disconnected' for every
\* other reason, a missing one included, and the state-named and 'state'
\* events carry the reason unchanged
C18_CloseReasonMapping ==
    [][(call'.op = "onclose") =>
         LET target == CloseTarget(call'.reason)
         IN  /\ state' = target
             /\ CountEmits(log', "error") = 0
             /\ IF state = target THEN log' = <<>>
                ELSE /\ Len(Updates(log')) = 1
                     /\ Updates(log')[1].from = state /\ Updates(log')[1].to = target
                     /\ States \cap {log'[i].name : i \in {n \in 1..Len(log') : log'[n].kind = "emit"}} = {target}
                     /\ Cardinality(EmitsWith(log', target, "", call'.reason)) = 1
                     /\ CountEmits(log', target) = 1
                     /\ Cardinality(EmitsWith(log', "state", target, call'.reason)) = 1
                     /\ CountEmits(log', "state") = 1]_vars

C18_Witness == call.op = "onclose" /\ call.reason = "Stopped by server" /\ state = "stopped" /\ Cardinality(EmitsWith(log, "state", "stopped", "Stopped by server")) = 1

\* ------------------------------------------------------------ bindToSocket
\* C19: when bindToSocket(socket) has returned, in the constructor and on a
\* rebind from any state, the state is 'connecting' for a socket that is
\* opening or open and 'disconnected' otherwise, and on a rebind the previous
\* socket has been closed
C19_StateAfterBind ==
    (call.op \in {"constructor", "bindToSocket"}) =>
        /\ state = connectionState(call.readyState)
        /\ call.op = "bindToSocket" => KindCount(log, "socketClose") = 1

\* C19 for every bind but the rebind of a connected connection to a socket
\* that is opening or open
C19_StateAfterBindUnlessConnected ==
    [][(call'.op = "bindToSocket" /\ ~(state = "connected" /\ call'.sync = "async" /\ call'.readyState \in {0, 1})) =>
          state' = connectionState(call'.readyState)]_vars

\* ------------------------------------------------------- the routing table
\* the Doc objects registered under (c, d)
RegisteredUnder(c, d) == {collections[x].v[y].v : <<x, y>> \in {z \in (1..Len(collections)) \X (1..MaxDocs) : z[2] <= Len(collections[z[1]].v) /\ collections[z[1]].k = c /\ collections[z[1]].v[z[2]].k = d}}

DocMethod(a) == CASE a = "f" -> "_handleFetch" [] a = "s" -> "_handleSubscribe" [] a = "u" -> "_handleUnsubscribe" [] a = "op" -> "_handleOp"

\* the handler calls in a trace, in order, as <<target, method>> pairs
HandlerCalls(l) ==
    LET cs == SelectSeq(l, LAMBDA e : e.kind \in {"call", "qcall"})
    IN  [i \in 1..Len(cs) |-> IF cs[i].kind = "call" THEN <<"doc", cs[i].doc, cs[i].method>> ELSE <<"query", cs[i].q, cs[i].method>>]

\* what the routing table says a message invokes
Routed(m) ==
    CASE m.a \in {"f", "s", "u", "op"} ->
            IF RegisteredUnder(m.c, m.d) = {} THEN <<>>
            ELSE <<<<"doc", CHOOSE i \in RegisteredUnder(m.c, m.d) : TRUE, DocMethod(m.a)>>>>
      [] m.a \in {"qf", "qs"} ->
            IF m.qid \notin SeqRange(queries) THEN <<>>
            ELSE <<<<"query", m.qid, IF m.a = "qf" THEN "_handleFetch" ELSE "_handleSubscribe">>>>
      [] m.a = "q" ->
            IF m.qid \notin SeqRange(queries) THEN <<>>
            ELSE IF m.error # 0 THEN <<<<"query", m.qid, "_handleError">>>>
            ELSE (IF m.diff THEN <<<<"query", m.qid, "_handleDiff">>>> ELSE <<>>) \o (IF m.extra THEN <<<<"query", m.qid, "_handleExtra">>>> ELSE <<>>)
      [] OTHER -> <<>>

RoutedActions == {"f", "s", "u", "op", "qf", "qs", "qu", "q", "ping"}

\* a message whose request.data a 'receive' listener set to null reaches no
\* handler: the 'receive' event is all that happens
NotDispatched ==
    (call'.op = "onmessage" /\ call'.hear = "drop") =>
        /\ Len(log') = 1 /\ IsEmit(log'[1], "receive")
        /\ UNCHANGED <<state, canSend, seq, id, agent, collections, queries, nextQueryId, bulk, docs, timers>>

\* when the first handler the routing table names throws, no later handler
\* is called and emit('error') is left to the next tick
ThrownOut ==
    (call'.op = "onmessage" /\ call'.hear = "throw" /\ call'.msg.a \in RoutedActions /\ Routed(call'.msg) # <<>>) =>
        /\ HandlerCalls(log') = <<Head(Routed(call'.msg))>>
        /\ CountEmits(log', "error") = 0
        /\ timers' = Append(timers, [fn |-> "error", w |-> 0])
        /\ UNCHANGED <<state, canSend, seq, id, agent, collections, queries, nextQueryId, bulk, docs>>

\* C20: dispatch invokes exactly the handler the routing table names: the
\* handler of the Doc registered under (c, d) for f/s/u/op and of the Query
\* registered under id for qf/qs/q, nothing when none is registered, only
\* _handleError for a q with an error envelope, nothing for qu and unknown
\* actions; it creates no Doc, emits no event and changes no connection state
C20_RoutingTable ==
    [][/\ (Handled(call') /\ call'.msg.a \in RoutedActions) =>
          /\ HandlerCalls(log') = Routed(call'.msg)
          /\ \A i \in 1..Len(log') : log'[i].kind \in {"call", "qcall"} \/ IsEmit(log'[i], "receive")
          /\ \A i \in 1..Len(log') : log'[i].kind \in {"call", "qcall"} => log'[i].err = call'.msg.error
          /\ UNCHANGED <<state, canSend, seq, id, agent, collections, queries, nextQueryId, bulk, docs>>
          /\ timers' = timers
       /\ NotDispatched
       /\ ThrownOut]_vars

C20_Witness ==
    /\ Handled(call) /\ call.msg.a = "q" /\ call.msg.error # 0 /\ call.msg.diff /\ call.msg.extra
    /\ HandlerCalls(log) = <<<<"query", call.msg.qid, "_handleError">>>>
    /\ Len(collections) > 0

\* ------------------------------------------------------------------ C21
Registered(i) == \E j \in 1..Len(DocList(collections)) : DocList(collections)[j] = i

RegisteredQuery(q) == \E j \in 1..Len(queries) : queries[j] = q

\* every document that reports pending emits 'nothing pending' while registered
DocSettles ==
    \A i \in 1..MaxDocs :
        (i \in pending.docs) ~> (call.op = "doc nothing pending" /\ call.doc = i /\ Registered(i))

\* every query that reports pending emits 'ready' while registered
QuerySettles ==
    \A q \in 1..MaxQueries :
        (q \in pending.queries) ~> (call.op = "query ready" /\ call.q = q /\ RegisteredQuery(q))

\* from some point on no new pending work is created
NoNewPendingEventually == <>[](call.op \notin {"doc pending", "_createQuery"})

\* every whenNothingPending call gets its callback invoked
Delivered == \A w \in 1..MaxWaits : (Len(waits) >= w) ~> (Len(waits) >= w /\ waits[w].at = "called")

\* the listener of the call w is the one listener registered for it
Listening(n, w) == Cardinality({e \in 1..Len(n.once) : n.once[e] = [kind |-> waits[w].at, on |-> waits[w].on, w |-> w]}) = 1

\* a step that is not the awaited object's event leaves the call waiting: no
\* callback, no retry, the listener still registered
WaitHolds ==
    \A w \in 1..Len(waits) :
        (/\ waits[w].at \in {"doc", "query"}
         /\ ~(waits[w].at = "doc" /\ call'.op = "doc nothing pending" /\ call'.doc = waits[w].on)
         /\ ~(waits[w].at = "query" /\ call'.op = "query ready" /\ call'.q = waits[w].on))
        => /\ waits'[w] = waits[w]
           /\ waits'[w].calls = 0
           /\ Listening(pending', w)
           /\ \A t \in 1..Len(timers') : timers'[t].w # w

\* C21: when every pending document and query emits its event while registered
\* and new pending work stops, the callback of whenNothingPending is invoked;
\* while the awaited object does not emit (the connection closes, the object is
\* removed from the registry) the call stays waiting, neither invoked nor
\* cancelled.
C21_CallbackEventually == ((DocSettles /\ QuerySettles /\ NoNewPendingEventually) => Delivered) /\ [][WaitHolds]_vars

\* the callback ran on a tick, after a retry, with documents and a query
\* registered and nothing pending
C21_Witness ==
    /\ call.op = "pendingTick" /\ call.fn = "callback"
    /\ waits[call.w].at = "called"
    /\ Len(DocList(collections)) = 2 /\ Len(queries) = 1
    /\ pending.docs = {} /\ pending.queries = {}
    /\ state = "closed"

\* ------------------------------------------------------------------ C22
\* the _unsubscribe requests a handler issued for the channel ch
UnsubscribesFor(l, ch) == Cardinality({i \in 1..Len(l) : l[i].kind = "_unsubscribe" /\ l[i].channel = ch})

\* the requests a handler handed to the transport, in order
TransportRequests(l) == SelectSeq(l, LAMBDA e : e.kind \in {"_subscribe", "_unsubscribe"})

CloseCompletes ==
    (call'.op = "PubSub.close") =>
        /\ Alive' = {}
        /\ KindCount(log', "close") = Cardinality(Alive)
        /\ streams' = <<>>
        /\ streamsCount' = 0
        /\ subscribed' = {}
        /\ \A ch \in StreamChannels(streams) : UnsubscribesFor(log', ch) = 1
        /\ KindCount(log', "_unsubscribe") = Cardinality(StreamChannels(streams))
        /\ KindCount(log', "_subscribe") = 0
        /\ Len(transport'.queue) = Len(transport.queue) + Cardinality(StreamChannels(streams))
        /\ \A i \in 1..Len(TransportRequests(log')) :
               transport'.queue[Len(transport.queue) + i] = [op |-> "_unsubscribe", channel |-> TransportRequests(log')[i].channel, req |-> 0]
        /\ KindCount(log', "closeCallback") = (IF call'.hasCallback THEN 1 ELSE 0)
        /\ call'.hasCallback => log'[Len(log')].kind = "closeCallback"
        /\ UNCHANGED <<ticks, requests, nextStreamId, prefix>>

\* C22: PubSub.close destroys every stream live at the call; when it returns
\* streams is empty, streamsCount is 0, no subscribed flag is set, the
\* transport got one _unsubscribe per channel that had streams, and the
\* callback, if given, ran once.
C22_CloseDestroysAll == [][CloseCompletes]_vars

\* close with a callback ended three live streams on two channels
C22_Witness ==
    /\ call.op = "PubSub.close" /\ call.hasCallback
    /\ KindCount(log, "close") = 3
    /\ KindCount(log, "_unsubscribe") = 2
    /\ KindCount(log, "closeCallback") = 1

\* ------------------------------------------------------------------ C23
\* C23: in every reachable state a channel with a live stream has its
\* subscribed flag set.
C23_LiveStreamSubscribed == StreamChannels(streams) \subseteq subscribed

\* a stream is created only on a channel whose flag is set when it is created
CreatedWhileSubscribed ==
    \A i \in 1..Len(log') : log'[i].kind = "createStream" => log'[i].channel \in subscribed'

\* C23, the transport path alone: the stream that subscribe's _subscribe
\* callback creates is created with the flag set.
C23_TransportPathSubscribed == [][call'.op = "transport" => CreatedWhileSubscribed]_vars

\* ------------------------------------------------------------------ C24
\* the Doc registered under (c, d) in the registry cols; 0 is undefined
RegisteredAt(cols, c, d) == getExisting([collections |-> cols], c, d)

\* _destroyDoc(doc) of a Doc that is not the one registered under its pair
\* leaves the registry as it is
DestroyOnlySelf ==
    (call'.op = "_destroyDoc" /\ RegisteredAt(collections, docs[call'.doc].c, docs[call'.doc].d) # call'.doc)
        => collections' = collections

\* C24: _destroyDoc(doc) removes the entry of (doc.collection, doc.id) only
\* when the Doc registered there is doc itself.
C24_DestroyOnlySelf == [][DestroyOnlySelf]_vars

\* _destroyDoc(doc) of the registered Doc removes its entry and nothing else
DestroyRemovesSelf ==
    (call'.op = "_destroyDoc" /\ RegisteredAt(collections, docs[call'.doc].c, docs[call'.doc].d) = call'.doc)
        => /\ RegisteredAt(collections', docs[call'.doc].c, docs[call'.doc].d) = 0
           /\ \A i \in DocIdents \ {call'.doc} : Registered(i) => RegisteredAt(collections', docs[i].c, docs[i].d) = i

\* C24, the registered Doc and the inner mappings: destroying the registered
\* Doc unregisters it alone, and no inner mapping of the registry is empty.
C24_RegisteredDestroyed == [][DestroyRemovesSelf]_vars /\ [](\A i \in 1..Len(collections) : Len(collections[i].v) > 0)

\* ------------------------------------------------------------------ C26
\* C26: the client id is non-null only while the state is 'connected'.
C26_IdOnlyWhileConnected == (id # NoId) => state = "connected"

\* a well-formed init message that arrives while the state is not
\* 'connecting' leaves the id as it was
InitOutsideConnectingKeepsId ==
    (Handled(call') /\ call'.msg \in GoodInits /\ state # "connecting") => id' = id

C26_InitOutsideConnecting == [][InitOutsideConnectingKeepsId]_vars

\* the id changes only in a handler that ran _reset or took a well-formed
\* init message
IdChangesByInitOrReset ==
    (id' # id) => \/ call'.op = "onmessage" /\ call'.msg \in GoodInits /\ id' = call'.msg.id
                  \/ KindCount(log', "reset") > 0 /\ id' = NoId

C26_IdChangesByInitOrReset == [][IdChangesByInitOrReset]_vars

\* ------------------------------------------------------------------ C25
\* the 'state' events a handler emitted, in order
StateEvents(l) == SelectSeq(l, LAMBDA e : IsEmit(e, "state"))

\* each 'state' event carries the state the connection is in when it is
\* emitted, and the events list the applied transitions in order
StateEventsFollow(l) ==
    /\ \A i \in 1..Len(l) : IsEmit(l[i], "state") => l[i].a1 = l[i].st
    /\ Len(StateEvents(l)) = Len(Updates(l))
    /\ \A i \in 1..Len(Updates(l)) : StateEvents(l)[i].a1 = Updates(l)[i].to

\* C25: a 'state' event carries the connection's state at that moment and the
\* 'state' events list the accepted transitions in the order they were
\* applied, also when the application's code closes the connection from inside
\* a transition.
C25_StateEventsFollow == StateEventsFollow(log)

\* C25, while no listener acts inside a transition
C25_StateEventsFollowQuiet == (call.op \in {"onopen", "onclose", "onmessage"} /\ call.hear = Quiet) => StateEventsFollow(log)

\* with quiet listeners the handlers are the plain ones
C25_QuietIsPlain ==
    [][/\ (call'.op = "onopen" /\ call'.hear = Quiet) => log' = onopen(Cur).log
       /\ (call'.op = "onclose" /\ call'.hear = Quiet) => log' = onclose(Cur, call'.reason).log
       /\ (call'.op = "onmessage" /\ call'.hear = Quiet) => log' = onmessage(Cur, call'.msg, call'.react, Quiet).log]_vars

====
